---- MODULE Spec2Model ----
(***************************************************************************)
(* State-machine model of aa-isksync: the monthly tax-cycle generator      *)
(* (isksync/tasks.py), the obligation synchronizer, and the TaxCycle       *)
(* status operations (isksync/models.py, views.py, admin.py).              *)
(*                                                                         *)
(* Database tables are sets of records; a nullable column holds Null       *)
(* (the empty tuple) or Some(v) (a one-element tuple).  Dates are records  *)
(* [y, m, d]; Decimal amounts are integers (ISK units).                    *)
(***************************************************************************)
EXTENDS Integers, Sequences, FiniteSets, TLC

VARIABLES
    today,        \* date.today()
    steps,        \* number of clock and administrator steps so far (bounded by MaxSteps)
    ownerships,   \* SystemOwnership rows: pk -> [tax_active, default_tax_amount_isk]
    assignments,  \* SystemObligationType rows: <<ownership, type>> -> is_active
    cycles,       \* TaxCycle rows
    obligations,  \* TaxCycleObligation rows
    run,          \* summary returned by the latest generate_monthly_tax_cycles call
    call,         \* the latest TaxCycle operation: name, arguments, row before, exception
    config,       \* the DiscordNotificationConfig row, or Null
    logs,         \* DiscordNotificationLog rows
    outbox,       \* the requests.post calls made to the webhook, in order
    sweep,        \* record of the latest process_all_tax_cycle_notifications call
    manual,       \* record of the latest send made from the TaxCycle admin actions
    left_out,     \* history: the months past runs left without a cycle
    workers       \* the task invocations in progress: worker -> its local variables

(* The notification side of the state *)
notify_vars == <<config, logs, outbox, sweep>>

vars == <<today, steps, ownerships, assignments, cycles, obligations, run, call,
          config, logs, outbox, sweep, manual, left_out, workers>>

----------------------------------------------------------------------------
(* Bounds of the model *)

(* The clock and the administrator together take at most MaxSteps steps *)
MaxSteps == 3

(* SystemOwnership pks in queryset order, and ObligationType pks *)
OwnerSeq == <<"so1", "so2">>
Owners == {OwnerSeq[i] : i \in 1..Len(OwnerSeq)}
Types == {"ot1"}

(* Values of default_tax_amount_isk: DecimalField, default 0.00, sign unconstrained *)
Amounts == {-1, 0, 1, 2}

(* The target_amount an administrator types into the TaxCycle add form *)
HandAmounts == {2}

Null == <<>>
Some(v) == <<v>>

(* The task workers: two invocations of a task can be in progress at once *)
Workers == {"w1", "w2"}

(* A worker that is running no task *)
Idle == [pc |-> "idle"]

----------------------------------------------------------------------------
(* Status vocabulary (isksync/constants.py) *)

TAXCYCLE_STATUS_PENDING == "PENDING"
TAXCYCLE_STATUS_PAID == "PAID"
TAXCYCLE_STATUS_OVERDUE == "OVERDUE"
TAXCYCLE_STATUS_WRITTEN_OFF == "WRITTEN_OFF"
TAXCYCLE_STATUS_CHOICES ==
    {TAXCYCLE_STATUS_PENDING, TAXCYCLE_STATUS_PAID,
     TAXCYCLE_STATUS_OVERDUE, TAXCYCLE_STATUS_WRITTEN_OFF}

OBLIGATION_STATUS_PENDING == "PENDING"
OBLIGATION_STATUS_COMPLETED == "COMPLETED"
OBLIGATION_STATUS_FAILED == "FAILED"

----------------------------------------------------------------------------
(* Calendar: datetime.date and calendar.monthrange *)

Date(y, m, d) == [y |-> y, m |-> m, d |-> d]

DateLT(a, b) ==
    \/ a.y < b.y
    \/ a.y = b.y /\ a.m < b.m
    \/ a.y = b.y /\ a.m = b.m /\ a.d < b.d

DateLE(a, b) == a = b \/ DateLT(a, b)

isleap(y) == y % 4 = 0 /\ (y % 100 # 0 \/ y % 400 = 0)

mdays == <<31, 28, 31, 30, 31, 30, 31, 31, 30, 31, 30, 31>>

(* Variant: February always has 28 days *)
monthrangeNoLeap(y, m) == mdays[m]

(* monthrange(year, month)[1] *)
monthrange(y, m) == mdays[m] + (IF m = 2 /\ isleap(y) THEN 1 ELSE 0)

_first_of_month(d) == Date(d.y, d.m, 1)

_next_month(d) == IF d.m = 12 THEN Date(d.y + 1, 1, 1) ELSE Date(d.y, d.m + 1, 1)

(* the month before d's, first day *)
PrevMonth(d) == IF d.m = 1 THEN Date(d.y - 1, 12, 1) ELSE Date(d.y, d.m - 1, 1)

(* datetime._DAYS_BEFORE_MONTH and _days_before_month *)
days_before == <<0, 31, 59, 90, 120, 151, 181, 212, 243, 273, 304, 334>>

DaysBeforeMonth(y, m) == days_before[m] + (IF m > 2 /\ isleap(y) THEN 1 ELSE 0)

(* date.toordinal(): days since 0001-01-01, that day being 1 *)
toordinal(d) ==
    LET py == d.y - 1
    IN py * 365 + (py \div 4) - (py \div 100) + (py \div 400)
       + DaysBeforeMonth(d.y, d.m) + d.d

(* (a - b).days *)
DaysBetween(a, b) == toordinal(a) - toordinal(b)

(* date + timedelta(days=1) *)
NextDay(d) ==
    IF d.d < monthrange(d.y, d.m) THEN Date(d.y, d.m, d.d + 1) ELSE _next_month(d)

(* Clock readings the model starts from *)
InitDates == {Date(2023, 11, 30), Date(2024, 2, 28), Date(2100, 2, 28)}

----------------------------------------------------------------------------
(* Table helpers *)

MaxOf(S) == CHOOSE x \in S : \A z \in S : z <= x

(* AutoField: the next primary key of a table *)
NextPk(rows) == IF rows = {} THEN 1 ELSE MaxOf({r.id : r \in rows}) + 1

(* TaxCycle.objects.filter(system_ownership=so) *)
CyclesOf(cs, so) == {c \in cs : c.system_ownership = so}

(* .order_by("period_start").values_list("period_start", flat=True).first():
   Null when the ownership has no cycle *)
EarliestExisting(cs, so) ==
    IF CyclesOf(cs, so) = {} THEN Null
    ELSE LET ps == {c.period_start : c \in CyclesOf(cs, so)}
         IN Some(CHOOSE p \in ps : \A q \in ps : DateLE(p, q))

(* TaxCycle.objects.filter(system_ownership=so, period_start=ps) *)
ExistingCycles(cs, so, ps) ==
    {c \in cs : c.system_ownership = so /\ c.period_start = ps}

(* Variant: the table has no unique index *)
UniqueTogetherDropped(cs, so, ps) == TRUE

(* unique_together = ("system_ownership", "period_start") *)
UniqueTogetherOK(cs, so, ps) ==
    \A c \in cs : ~(c.system_ownership = so /\ c.period_start = ps)

(* Variant: the amount is 1 whatever non-zero default the row holds now *)
get_current_tax_amount_fixed(own) ==
    IF own.default_tax_amount_isk # 0 THEN 1 ELSE 0

(* SystemOwnership.get_current_tax_amount *)
get_current_tax_amount(own) ==
    IF own.default_tax_amount_isk # 0 THEN own.default_tax_amount_isk ELSE 0

(* A freshly inserted TaxCycle row; unset columns take the field defaults *)
NewCycle(id, so, ps, pe, due, status, amount) ==
    [id |-> id, system_ownership |-> so,
     period_start |-> ps, period_end |-> pe, due_date |-> due,
     status |-> status, paid_date |-> Null, paid_amount |-> Null,
     target_amount |-> amount,
     user_marked_paid |-> FALSE, user_marked_paid_at |-> Null]

(* A freshly inserted TaxCycleObligation row *)
NewObligation(id, cid, t) ==
    [id |-> id, tax_cycle |-> cid, obligation_type |-> t,
     status |-> OBLIGATION_STATUS_PENDING,
     fulfilled_date |-> Null, fulfilled_by |-> Null]

----------------------------------------------------------------------------
(* Obligation synchronizer *)

(* SystemObligationType.objects.filter(system_ownership=so, is_active=True) *)
ActiveTypes(asg, so) == {t \in Types : asg[<<so, t>>]}

(* _ensure_cycle_obligations: get_or_create one row per active type.
   Returns the new table and the number of rows created. *)
RECURSIVE EnsureLoop(_, _, _, _)
EnsureLoop(obs, cid, todo, created) ==
    IF todo = {} THEN [obligations |-> obs, created |-> created]
    ELSE LET t == CHOOSE x \in todo : TRUE
             have == {o \in obs : o.tax_cycle = cid /\ o.obligation_type = t}
         IN IF have # {}
            THEN EnsureLoop(obs, cid, todo \ {t}, created)
            ELSE EnsureLoop(obs \cup {NewObligation(NextPk(obs), cid, t)},
                            cid, todo \ {t}, created + 1)

(* Variant: the synchronizer also deletes the rows of types no longer active *)
EnsurePruning(obs, asg, cycle) ==
    EnsureLoop({o \in obs : o.tax_cycle = cycle.id =>
                    o.obligation_type \in ActiveTypes(asg, cycle.system_ownership)},
               cycle.id, ActiveTypes(asg, cycle.system_ownership), 0)

_ensure_cycle_obligations(obs, asg, cycle) ==
    EnsureLoop(obs, cycle.id, ActiveTypes(asg, cycle.system_ownership), 0)

----------------------------------------------------------------------------
(* Cycle generator *)

(* The accumulator of one run: the two tables and the run's counters.
   units records the branch taken for every (ownership, month) visited;
   faults is the set of points at which the database raises during this run. *)
RunStart(cs, obs) ==
    [cycles |-> cs, obligations |-> obs,
     created |-> 0, skipped |-> 0, errors |-> 0, obligations_created |-> 0,
     units |-> {}, created_ids |-> {}, faults |-> {}]

(* One entry of the run's trace: the branch taken for (ownership, month) *)
Unit(so, month, outcome) == [so |-> so, month |-> month, outcome |-> outcome]

(* A point of the run at which a statement raises: the earliest_existing
   query of an ownership ("owner", no month), the existence query that opens
   the atomic block of a month ("query"), or the synchronizer call that
   closes it ("sync") *)
Fault(so, month, at) == [so |-> so, month |-> month, at |-> at]

(* except Exception inside the while loop: the atomic block has been rolled
   back, so the tables are those of before the block *)
UnitError(acc, so, month) ==
    [acc EXCEPT !.errors = @ + 1,
                !.units = @ \cup {Unit(so, month, "error")}]

(* except Exception of the for loop: the ownership is abandoned *)
OwnerError(acc, so) ==
    [acc EXCEPT !.errors = @ + 1,
                !.units = @ \cup {Unit(so, Null, "error")}]

(* Variant: an existing cycle is skipped without being synchronized *)
UnitExistingNoSync(acc, asg, existing) ==
    [acc EXCEPT !.skipped = @ + 1,
                !.units = @ \cup {Unit(existing.system_ownership,
                                       existing.period_start, "existing")}]

(* if existing: count the month as skipped and synchronize the existing cycle *)
UnitExisting(acc, asg, existing) ==
    LET sync == _ensure_cycle_obligations(acc.obligations, asg, existing)
    IN IF Fault(existing.system_ownership, existing.period_start, "sync") \in acc.faults
       THEN UnitError([acc EXCEPT !.skipped = @ + 1],
                      existing.system_ownership, existing.period_start)
       ELSE [acc EXCEPT !.skipped = @ + 1,
                        !.obligations = sync.obligations,
                        !.obligations_created = @ + sync.created,
                        !.units = @ \cup {Unit(existing.system_ownership,
                                               existing.period_start, "existing")}]

(* Variant: only a negative amount counts as no rate *)
NoValidRateNegativeOnly(amount) == amount < 0

(* if not amount or amount <= 0 *)
NoValidRate(amount) == amount = 0 \/ amount <= 0

(* the "skipping month" branch *)
UnitNoRate(acc, so, period_start) ==
    [acc EXCEPT !.skipped = @ + 1,
                !.units = @ \cup {Unit(so, period_start, "no_rate")}]

(* TaxCycle.objects.create(...) followed by the synchronizer.  The INSERT
   raises IntegrityError when the unique index rejects the row: the atomic
   block rolls back and the except clause counts the error.  When the
   synchronizer raises, created_count has already been incremented and the
   inserted row is rolled back with the block. *)
UnitCreate(acc, asg, cycle) ==
    IF ~UniqueTogetherOK(acc.cycles, cycle.system_ownership, cycle.period_start)
    THEN UnitError(acc, cycle.system_ownership, cycle.period_start)
    ELSE IF Fault(cycle.system_ownership, cycle.period_start, "sync") \in acc.faults
    THEN UnitError([acc EXCEPT !.created = @ + 1],
                   cycle.system_ownership, cycle.period_start)
    ELSE LET sync == _ensure_cycle_obligations(acc.obligations, asg, cycle)
         IN [acc EXCEPT !.cycles = @ \cup {cycle},
                        !.created = @ + 1,
                        !.created_ids = @ \cup {cycle.id},
                        !.obligations = sync.obligations,
                        !.obligations_created = @ + sync.created,
                        !.units = @ \cup {Unit(cycle.system_ownership,
                                               cycle.period_start, "created")}]

(* The atomic block after its existence query has returned the rows found:
   the if existing / else branches *)
UnitBody(acc, so, own, asg, iter_month, found) ==
    LET last_day == monthrange(iter_month.y, iter_month.m)
        period_start == iter_month
        period_end == Date(iter_month.y, iter_month.m, last_day)
        due_date == period_end
    IN IF found # {}
       THEN UnitExisting(acc, asg, CHOOSE c \in found : \A z \in found : c.id <= z.id)
       ELSE LET amount == get_current_tax_amount(own)
            IN IF NoValidRate(amount)
               THEN UnitNoRate(acc, so, period_start)
               ELSE UnitCreate(acc, asg,
                               NewCycle(NextPk(acc.cycles), so, period_start,
                                        period_end, due_date,
                                        TAXCYCLE_STATUS_PENDING, amount))

(* The body of the while loop: one transaction.atomic() block *)
GenUnit(acc, so, own, asg, iter_month) ==
    IF Fault(so, iter_month, "query") \in acc.faults
    THEN UnitError(acc, so, iter_month)
    ELSE UnitBody(acc, so, own, asg, iter_month,
                  ExistingCycles(acc.cycles, so, iter_month))

(* Variant: the loop ends after the first month it creates *)
RECURSIVE MonthLoopStopsAfterCreate(_, _, _, _, _, _)
MonthLoopStopsAfterCreate(acc, so, own, asg, iter_month, end_month) ==
    IF DateLE(iter_month, end_month)
    THEN LET after == GenUnit(acc, so, own, asg, iter_month)
         IN IF after.created > acc.created THEN after
            ELSE MonthLoopStopsAfterCreate(after, so, own, asg,
                                           _next_month(iter_month), end_month)
    ELSE acc

(* Variant: an exception in one month ends the months of that ownership *)
RECURSIVE MonthLoopStopsOnError(_, _, _, _, _, _)
MonthLoopStopsOnError(acc, so, own, asg, iter_month, end_month) ==
    IF DateLE(iter_month, end_month)
    THEN LET after == GenUnit(acc, so, own, asg, iter_month)
         IN IF after.errors > acc.errors THEN after
            ELSE MonthLoopStopsOnError(after, so, own, asg,
                                       _next_month(iter_month), end_month)
    ELSE acc

(* while iter_month <= end_month *)
RECURSIVE MonthLoop(_, _, _, _, _, _)
MonthLoop(acc, so, own, asg, iter_month, end_month) ==
    IF DateLE(iter_month, end_month)
    THEN MonthLoop(GenUnit(acc, so, own, asg, iter_month), so, own, asg,
                   _next_month(iter_month), end_month)
    ELSE acc

(* for system_ownership in active_systems *)
RECURSIVE OwnerLoop(_, _, _, _, _)
OwnerLoop(acc, owns, asg, i, current_month_start) ==
    IF i > Len(OwnerSeq) THEN acc
    ELSE LET so == OwnerSeq[i]
         IN IF ~owns[so].tax_active
            THEN OwnerLoop(acc, owns, asg, i + 1, current_month_start)
            ELSE IF Fault(so, Null, "owner") \in acc.faults
            THEN OwnerLoop(OwnerError(acc, so), owns, asg, i + 1, current_month_start)
            ELSE LET earliest_existing == EarliestExisting(acc.cycles, so)
                     start_month == IF earliest_existing # Null
                                    THEN _first_of_month(earliest_existing[1])
                                    ELSE current_month_start
                 IN OwnerLoop(MonthLoop(acc, so, owns[so], asg, start_month,
                                        current_month_start),
                              owns, asg, i + 1, current_month_start)

(* generate_monthly_tax_cycles, as a function of the database and the clock *)
GenerateRun(cs, obs, owns, asg, day) ==
    OwnerLoop(RunStart(cs, obs), owns, asg, 1, _first_of_month(day))

(* A run during which the statements at the points F raise *)
GenerateRunWithFaults(cs, obs, owns, asg, day, F) ==
    OwnerLoop([RunStart(cs, obs) EXCEPT !.faults = F], owns, asg, 1,
              _first_of_month(day))

NoRun ==
    [n |-> 0, created |-> 0, skipped |-> 0, errors |-> 0, obligations_created |-> 0,
     total_systems |-> 0, run_date |-> Null, units |-> {}, created_ids |-> {},
     first_created |-> 0, faults |-> {}, before |-> {},
     obligations_before |-> {}]

NoCall ==
    [op |-> "none", cycle |-> 0, amount |-> Null, paid_date |-> Null,
     clear_user_flags |-> FALSE, before |-> Null, raised |-> "none",
     returned |-> Null, obligation |-> 0, actor |-> Null]

(* The first days of the months from a through b *)
RECURSIVE MonthsFromTo(_, _)
MonthsFromTo(a, b) == IF DateLE(a, b) THEN {a} \cup MonthsFromTo(_next_month(a), b) ELSE {}

(* The history a run adds to: the (ownership, month) pairs, from the month
   of an ownership's earliest cycle through the month of day, for which the
   table cs holds no cycle.  The runs made step by step by the workers add
   nothing to it. *)
MissingMonths(cs, day) ==
    {p \in Owners \X UNION {MonthsFromTo(c.period_start, _first_of_month(day)) : c \in cs} :
        /\ EarliestExisting(cs, p[1]) # Null
        /\ DateLE(_first_of_month(EarliestExisting(cs, p[1])[1]), p[2])
        /\ ExistingCycles(cs, p[1], p[2]) = {}}

(* The scheduled task.  run.n counts the runs made since the database or the
   clock last changed; run.first_created keeps what the first of them created. *)
generate_monthly_tax_cycles ==
    LET r == GenerateRun(cycles, obligations, ownerships, assignments, today)
    IN /\ cycles' = r.cycles
       /\ obligations' = r.obligations
       /\ run' = [n |-> IF run.n >= 2 THEN 2 ELSE run.n + 1,
                  created |-> r.created, skipped |-> r.skipped,
                  errors |-> r.errors,
                  obligations_created |-> r.obligations_created,
                  total_systems |-> Cardinality({so \in Owners : ownerships[so].tax_active}),
                  run_date |-> Some(today),
                  units |-> r.units, created_ids |-> r.created_ids,
                  first_created |-> IF run.n = 0 THEN r.created ELSE run.first_created,
                  faults |-> {}, before |-> cycles,
                  obligations_before |-> obligations]
       /\ call' = NoCall
       /\ left_out' = left_out \cup MissingMonths(r.cycles, today)
       /\ UNCHANGED notify_vars /\ UNCHANGED <<manual, workers, today, steps, ownerships, assignments>>

(* A worker starts generate_monthly_tax_cycles: the counters are zero, the
   clock is read and the active_systems queryset is evaluated.  The tables
   are not part of a worker's local state: every query reads them as they
   are when it runs. *)
GenStart(w) ==
    /\ workers[w].pc = "idle"
    /\ workers' = [workers EXCEPT ![w] =
                     [pc |-> "owner", owns |-> ownerships,
                      end_month |-> _first_of_month(today), i |-> 1,
                      iter_month |-> Null, found |-> {}, starts |-> <<>>,
                      acc |-> RunStart({}, {})]]
    /\ UNCHANGED <<left_out, today, steps, ownerships, assignments, cycles, obligations, run, call,
                   config, logs, outbox, sweep, manual>>

(* The head of the for loop: the next ownership of the queryset, its
   earliest_existing query and its start_month; after the last ownership the
   task returns its summary *)
GenOwner(w) ==
    LET l == workers[w]
        so == OwnerSeq[l.i]
        earliest_existing == EarliestExisting(cycles, so)
        start_month == IF earliest_existing # Null
                       THEN _first_of_month(earliest_existing[1])
                       ELSE l.end_month
    IN /\ l.pc = "owner"
       /\ workers' = [workers EXCEPT ![w] =
             IF l.i > Len(OwnerSeq) THEN [l EXCEPT !.pc = "done"]
             ELSE IF ~l.owns[so].tax_active \/ ~DateLE(start_month, l.end_month)
             THEN [l EXCEPT !.i = @ + 1]
             ELSE [l EXCEPT !.pc = "check", !.iter_month = Some(start_month),
                            !.starts = @ \o <<(<<so, start_month>>)>>]]
       /\ UNCHANGED <<left_out, today, steps, ownerships, assignments, cycles, obligations, run, call,
                      config, logs, outbox, sweep, manual>>

(* The existence query that opens the atomic block of a month *)
GenCheck(w) ==
    LET l == workers[w]
    IN /\ l.pc = "check"
       /\ workers' = [workers EXCEPT ![w] =
             [l EXCEPT !.pc = "act",
                       !.found = ExistingCycles(cycles, OwnerSeq[l.i], l.iter_month[1])]]
       /\ UNCHANGED <<left_out, today, steps, ownerships, assignments, cycles, obligations, run, call,
                      config, logs, outbox, sweep, manual>>

(* The rest of the atomic block, its commit or rollback, and the step to the
   next month or to the next ownership *)
GenAct(w) ==
    LET l == workers[w]
        so == OwnerSeq[l.i]
        after == UnitBody([l.acc EXCEPT !.cycles = cycles, !.obligations = obligations],
                          so, l.owns[so], assignments, l.iter_month[1], l.found)
        next == _next_month(l.iter_month[1])
        kept == [after EXCEPT !.cycles = {}, !.obligations = {}]
    IN /\ l.pc = "act"
       /\ cycles' = after.cycles
       /\ obligations' = after.obligations
       /\ workers' = [workers EXCEPT ![w] =
             IF DateLE(next, l.end_month)
             THEN [l EXCEPT !.pc = "check", !.iter_month = Some(next),
                            !.found = {}, !.acc = kept]
             ELSE [l EXCEPT !.pc = "owner", !.i = @ + 1, !.iter_month = Null,
                            !.found = {}, !.acc = kept]]
       /\ UNCHANGED <<left_out, today, steps, ownerships, assignments, run, call,
                      config, logs, outbox, sweep, manual>>

(* The points at which a run made on this day can fail: the previous and
   the current month of every ownership, and every ownership's first query *)
FaultPoints(day) ==
    {Fault(so, Null, "owner") : so \in Owners}
    \cup {Fault(so, m, at) : so \in Owners,
                             m \in {PrevMonth(day), _first_of_month(day)},
                             at \in {"query", "sync"}}

(* The scheduled task, run while the database raises at one point *)
GenerateUnderFaults ==
    \E f \in FaultPoints(today) :
      LET F == {f}
          r == GenerateRunWithFaults(cycles, obligations, ownerships, assignments,
                                     today, F)
      IN /\ steps < MaxSteps
         /\ steps' = steps + 1
         /\ cycles' = r.cycles
         /\ obligations' = r.obligations
         /\ run' = [n |-> 1,
                    created |-> r.created, skipped |-> r.skipped,
                    errors |-> r.errors,
                    obligations_created |-> r.obligations_created,
                    total_systems |-> Cardinality({so \in Owners : ownerships[so].tax_active}),
                    run_date |-> Some(today),
                    units |-> r.units, created_ids |-> r.created_ids,
                    first_created |-> r.created,
                    faults |-> F, before |-> cycles,
                    obligations_before |-> obligations]
         /\ call' = NoCall
         /\ left_out' = left_out \cup MissingMonths(r.cycles, today)
         /\ UNCHANGED notify_vars /\ UNCHANGED <<manual, workers, today, ownerships, assignments>>

----------------------------------------------------------------------------
(* TaxCycle: validation and the official status operations *)

(* TaxCycle.expected_amount *)
expected_amount(c) == IF c.target_amount # 0 THEN c.target_amount ELSE 0

(* TaxCycle.clean: the message of the ValidationError raised, or "none".
   Only a ModelForm (full_clean) calls it; Model.save() does not. *)
clean(c) ==
    IF ~DateLT(c.period_start, c.period_end)
    THEN "Period start must be before period end"
    ELSE IF DateLT(c.due_date, c.period_end)
    THEN "Due date should be after or equal to period end"
    ELSE IF c.paid_date # Null
            /\ c.status \notin {TAXCYCLE_STATUS_PAID, TAXCYCLE_STATUS_WRITTEN_OFF}
    THEN "Paid date can only be set for paid or written off cycles"
    ELSE IF c.paid_amount # Null /\ c.paid_amount[1] < 0
    THEN "Paid amount cannot be negative"
    ELSE IF c.status = TAXCYCLE_STATUS_PAID /\ c.paid_amount # Null
            /\ expected_amount(c) # 0 /\ c.paid_amount[1] < expected_amount(c)
    THEN "Full payment cannot be less than expected amount"
    ELSE "none"

(* TaxCycle.save: the row as written *)
save(c, day) ==
    IF c.status = TAXCYCLE_STATUS_PAID /\ c.paid_date = Null
    THEN [c EXCEPT !.paid_date = Some(day)]
    ELSE c

(* Variant: the amount argument is stored even when it is None *)
set_status_paid_keeps_none(c, amount, paid_date, day) ==
    save([c EXCEPT !.status = TAXCYCLE_STATUS_PAID,
                   !.paid_date = IF paid_date # Null THEN paid_date ELSE Some(day),
                   !.paid_amount = amount], day)

(* TaxCycle.set_status_paid(amount=None, paid_date=None) *)
set_status_paid(c, amount, paid_date, day) ==
    save([c EXCEPT !.status = TAXCYCLE_STATUS_PAID,
                   !.paid_date = IF paid_date # Null THEN paid_date ELSE Some(day),
                   !.paid_amount = IF amount # Null THEN amount
                                   ELSE Some(c.target_amount)], day)

(* TaxCycle.set_status_written_off *)
set_status_written_off(c, day) ==
    save([c EXCEPT !.status = TAXCYCLE_STATUS_WRITTEN_OFF], day)

(* Variant: the payment date survives the return to PENDING *)
set_status_pending_keeps_paid_date(c, clear_user_flags, day) ==
    LET reset == [c EXCEPT !.status = TAXCYCLE_STATUS_PENDING,
                           !.paid_amount = Null]
    IN save(IF clear_user_flags
            THEN [reset EXCEPT !.user_marked_paid = FALSE,
                               !.user_marked_paid_at = Null]
            ELSE reset, day)

(* Variant: the self-report flags are cleared whatever the argument *)
set_status_pending_always_clears(c, clear_user_flags, day) ==
    save([c EXCEPT !.status = TAXCYCLE_STATUS_PENDING,
                   !.paid_amount = Null,
                   !.paid_date = Null,
                   !.user_marked_paid = FALSE,
                   !.user_marked_paid_at = Null], day)

(* TaxCycle.can_be_set_to_paid *)
can_be_set_to_paid(c) == c.status = TAXCYCLE_STATUS_PENDING

(* TaxCycle.set_status_pending(clear_user_flags=True) *)
set_status_pending(c, clear_user_flags, day) ==
    LET reset == [c EXCEPT !.status = TAXCYCLE_STATUS_PENDING,
                           !.paid_amount = Null,
                           !.paid_date = Null]
    IN save(IF clear_user_flags
            THEN [reset EXCEPT !.user_marked_paid = FALSE,
                               !.user_marked_paid_at = Null]
            ELSE reset, day)

(* The table with row c replaced by row d *)
Replace(cs, c, d) == (cs \ {c}) \cup {d}

Called(op, c, amount, paid_date, flag, raised) ==
    [op |-> op, cycle |-> c.id, amount |-> amount, paid_date |-> paid_date,
     clear_user_flags |-> flag, before |-> Some(c), raised |-> raised,
     returned |-> Null, obligation |-> 0, actor |-> Null]

(* An operation that takes no argument and returns a value *)
Returned(op, c, value) ==
    [Called(op, c, Null, Null, FALSE, "none") EXCEPT !.returned = Some(value)]

(* The row of the cycle the latest operation was called on, as it is now *)
Target == CHOOSE c \in cycles : c.id = call.cycle

(* Arguments a caller passes *)
AmountArgs == {Null} \cup {Some(a) : a \in Amounts}
PaidDateArgs(c) == {Null, Some(c.period_start)}

(* cycle.set_status_paid(amount, paid_date) *)
SetStatusPaid ==
    \E c \in cycles, amount \in AmountArgs :
      \E paid_date \in PaidDateArgs(c) :
        /\ steps < MaxSteps
        /\ cycles' = Replace(cycles, c, set_status_paid(c, amount, paid_date, today))
        /\ call' = Called("set_status_paid", c, amount, paid_date, FALSE, "none")
        /\ steps' = steps + 1
        /\ run' = NoRun
        /\ UNCHANGED notify_vars /\ UNCHANGED <<left_out, manual, workers, today, ownerships, assignments, obligations>>

(* cycle.set_status_written_off() *)
SetStatusWrittenOff ==
    \E c \in cycles :
        /\ steps < MaxSteps
        /\ cycles' = Replace(cycles, c, set_status_written_off(c, today))
        /\ call' = Called("set_status_written_off", c, Null, Null, FALSE, "none")
        /\ steps' = steps + 1
        /\ run' = NoRun
        /\ UNCHANGED notify_vars /\ UNCHANGED <<left_out, manual, workers, today, ownerships, assignments, obligations>>

(* cycle.set_status_pending(clear_user_flags) *)
SetStatusPending ==
    \E c \in cycles, flag \in BOOLEAN :
        /\ steps < MaxSteps
        /\ cycles' = Replace(cycles, c, set_status_pending(c, flag, today))
        /\ call' = Called("set_status_pending", c, Null, Null, flag, "none")
        /\ steps' = steps + 1
        /\ run' = NoRun
        /\ UNCHANGED notify_vars /\ UNCHANGED <<left_out, manual, workers, today, ownerships, assignments, obligations>>

(* views.mark_cycle_paid: calls cycle.mark_paid(), a method TaxCycle does not
   define, so the request ends in AttributeError before anything is written *)
mark_cycle_paid ==
    \E c \in cycles :
        /\ steps < MaxSteps
        /\ call' = Called("mark_cycle_paid", c, Null, Null, FALSE, "AttributeError")
        /\ steps' = steps + 1
        /\ run' = NoRun
        /\ UNCHANGED notify_vars /\ UNCHANGED <<left_out, manual, workers, today, ownerships, assignments, cycles, obligations>>

(* TaxCycleAdmin.mark_as_paid on one selected cycle: a PENDING or OVERDUE
   cycle reaches cycle.mark_paid() and the action ends in AttributeError;
   any other cycle is passed over *)
mark_as_paid ==
    \E c \in cycles :
        /\ steps < MaxSteps
        /\ call' = Called("mark_as_paid", c, Null, Null, FALSE,
                          IF c.status \in {TAXCYCLE_STATUS_PENDING, TAXCYCLE_STATUS_OVERDUE}
                          THEN "AttributeError" ELSE "none")
        /\ steps' = steps + 1
        /\ run' = NoRun
        /\ UNCHANGED notify_vars /\ UNCHANGED <<left_out, manual, workers, today, ownerships, assignments, cycles, obligations>>

(* views.mark_cycle_pending: save(update_fields=[status, paid_amount, paid_date]) *)
mark_cycle_pending ==
    \E c \in cycles :
        /\ steps < MaxSteps
        /\ cycles' = Replace(cycles, c,
                             save([c EXCEPT !.status = TAXCYCLE_STATUS_PENDING,
                                            !.paid_amount = Null,
                                            !.paid_date = Null], today))
        /\ call' = Called("mark_cycle_pending", c, Null, Null, FALSE, "none")
        /\ steps' = steps + 1
        /\ run' = NoRun
        /\ UNCHANGED notify_vars /\ UNCHANGED <<left_out, manual, workers, today, ownerships, assignments, obligations>>

(* TaxCycleAdmin change form, status field: the form's full_clean() runs
   clean(); an invalid form is shown again and nothing is saved *)
AdminChangeStatus ==
    \E c \in cycles, status \in TAXCYCLE_STATUS_CHOICES :
        LET edited == [c EXCEPT !.status = status]
        IN /\ steps < MaxSteps
           /\ status # c.status
           /\ cycles' = IF clean(edited) = "none"
                        THEN Replace(cycles, c, save(edited, today))
                        ELSE cycles
           /\ call' = Called("admin_change_status", c, Null, Null, FALSE,
                             IF clean(edited) = "none" THEN "none" ELSE "ValidationError")
           /\ steps' = steps + 1
           /\ run' = NoRun
           /\ UNCHANGED notify_vars /\ UNCHANGED <<left_out, manual, workers, today, ownerships, assignments, obligations>>

(* TaxCycleAdmin change form, target_amount field: the field is in the
   "Cycle Information" fieldset and not in readonly_fields *)
AdminChangeTargetAmount ==
    \E c \in cycles, amount \in Amounts :
        LET edited == [c EXCEPT !.target_amount = amount]
        IN /\ steps < MaxSteps
           /\ amount # c.target_amount
           /\ cycles' = IF clean(edited) = "none"
                        THEN Replace(cycles, c, save(edited, today))
                        ELSE cycles
           /\ call' = Called("admin_change_target_amount", c, Null, Null, FALSE,
                             IF clean(edited) = "none" THEN "none" ELSE "ValidationError")
           /\ steps' = steps + 1
           /\ run' = NoRun
           /\ UNCHANGED notify_vars /\ UNCHANGED <<left_out, manual, workers, today, ownerships, assignments, obligations>>

----------------------------------------------------------------------------
(* TaxCycle: end-user self-reporting (user_marked_paid) *)

(* TaxCycle.all_obligations_fulfilled: no obligations, or as many COMPLETED
   obligations as obligations *)
all_obligations_fulfilled(c, obs) ==
    LET mine == {o \in obs : o.tax_cycle = c.id}
    IN IF ~(Cardinality(mine) > 0) THEN TRUE
       ELSE Cardinality({o \in mine : o.status = OBLIGATION_STATUS_COMPLETED})
               = Cardinality(mine)

(* TaxCycle.completion_status; is_fully_paid is status == PAID *)
completion_status(c, obs) ==
    IF c.status = TAXCYCLE_STATUS_PAID /\ all_obligations_fulfilled(c, obs)
    THEN "complete" ELSE "outstanding"

(* TaxCycle.days_until_due *)
days_until_due(c, day) == DaysBetween(c.due_date, day)

(* TaxCycle.payment_timing_status *)
payment_timing_status(c, day) ==
    LET days_until == days_until_due(c, day)
    IN IF days_until < 0 THEN "overdue"
       ELSE IF days_until = 0 THEN "due_today"
       ELSE IF days_until <= 3 THEN "due_soon"
       ELSE IF days_until <= 7 THEN "payment_time"
       ELSE "too_early"

(* TaxCycle.can_user_mark_paid *)
can_user_mark_paid(c, day) ==
    IF c.status # TAXCYCLE_STATUS_PENDING THEN FALSE
    ELSE payment_timing_status(c, day) \in
            {"payment_time", "due_soon", "due_today", "overdue"}

(* TaxCycle.mark_as_paid_by_user: the row written and the value returned.
   save(update_fields=[user_marked_paid, user_marked_paid_at, updated_at]) *)
mark_as_paid_by_user(c, day) ==
    IF can_user_mark_paid(c, day)
    THEN [row |-> [c EXCEPT !.user_marked_paid = TRUE,
                            !.user_marked_paid_at = Some(day)],
          returned |-> TRUE]
    ELSE [row |-> c, returned |-> FALSE]

(* Variant: the flag is cleared and its timestamp is left behind *)
unmark_keeps_timestamp(c) ==
    IF c.user_marked_paid
    THEN [row |-> [c EXCEPT !.user_marked_paid = FALSE], returned |-> TRUE]
    ELSE [row |-> c, returned |-> FALSE]

(* TaxCycle.unmark_as_paid_by_user *)
unmark_as_paid_by_user(c) ==
    IF c.user_marked_paid
    THEN [row |-> [c EXCEPT !.user_marked_paid = FALSE,
                            !.user_marked_paid_at = Null],
          returned |-> TRUE]
    ELSE [row |-> c, returned |-> FALSE]

(* TaxCycle.toggle_user_mark_paid *)
toggle_user_mark_paid(c, day) ==
    IF c.user_marked_paid THEN unmark_as_paid_by_user(c)
    ELSE mark_as_paid_by_user(c, day)

(* cycle.mark_as_paid_by_user() *)
MarkAsPaidByUser ==
    \E c \in cycles :
        LET r == mark_as_paid_by_user(c, today)
        IN /\ steps < MaxSteps
           /\ cycles' = Replace(cycles, c, r.row)
           /\ call' = Returned("mark_as_paid_by_user", c, r.returned)
           /\ steps' = steps + 1
           /\ run' = NoRun
           /\ UNCHANGED notify_vars /\ UNCHANGED <<left_out, manual, workers, today, ownerships, assignments, obligations>>

(* cycle.unmark_as_paid_by_user() *)
UnmarkAsPaidByUser ==
    \E c \in cycles :
        LET r == unmark_as_paid_by_user(c)
        IN /\ steps < MaxSteps
           /\ cycles' = Replace(cycles, c, r.row)
           /\ call' = Returned("unmark_as_paid_by_user", c, r.returned)
           /\ steps' = steps + 1
           /\ run' = NoRun
           /\ UNCHANGED notify_vars /\ UNCHANGED <<left_out, manual, workers, today, ownerships, assignments, obligations>>

(* cycle.toggle_user_mark_paid() *)
ToggleUserMarkPaid ==
    \E c \in cycles :
        LET r == toggle_user_mark_paid(c, today)
        IN /\ steps < MaxSteps
           /\ cycles' = Replace(cycles, c, r.row)
           /\ call' = Returned("toggle_user_mark_paid", c, r.returned)
           /\ steps' = steps + 1
           /\ run' = NoRun
           /\ UNCHANGED notify_vars /\ UNCHANGED <<left_out, manual, workers, today, ownerships, assignments, obligations>>

(* views.toggle_user_marked_paid (POST): flips the flag and saves; the status
   and the due date are not consulted, and the response is a redirect *)
toggle_user_marked_paid ==
    \E c \in cycles :
        LET flipped == ~c.user_marked_paid
        IN /\ steps < MaxSteps
           /\ cycles' = Replace(cycles, c,
                                [c EXCEPT !.user_marked_paid = flipped,
                                          !.user_marked_paid_at =
                                              IF flipped THEN Some(today) ELSE Null])
           /\ call' = Called("toggle_user_marked_paid", c, Null, Null, FALSE, "none")
           /\ steps' = steps + 1
           /\ run' = NoRun
           /\ UNCHANGED notify_vars /\ UNCHANGED <<left_out, manual, workers, today, ownerships, assignments, obligations>>

----------------------------------------------------------------------------
(* TaxCycleObligation: the three status operations *)

(* The accounts of the user table *)
Users == {"u1", "u2"}

(* What a caller can pass as user: None, the AnonymousUser (pk None), or a
   saved User *)
NoUser == [kind |-> "none", pk |-> Null]
AnonymousUser == [kind |-> "anonymous", pk |-> Null]
User(u) == [kind |-> "user", pk |-> Some(u)]

(* request.user of a view behind login_required, or of an admin action *)
RequestUsers == {User(u) : u \in Users}

(* The user arguments of mark_failed(user=None) *)
OptionalUsers == {NoUser, AnonymousUser} \cup RequestUsers

(* Assigning to the fulfilled_by foreign key: None or a User instance is
   accepted, anything else raises ValueError *)
Assignable(user) == user.kind \in {"none", "user"}

(* The three operations return the row as saved and the exception raised,
   if any *)

(* TaxCycleObligation.mark_fulfilled(user, notes=None) *)
mark_fulfilled(o, user, day) ==
    IF ~Assignable(user) THEN [row |-> o, raised |-> "ValueError"]
    ELSE [row |-> [o EXCEPT !.status = OBLIGATION_STATUS_COMPLETED,
                            !.fulfilled_date = Some(day),
                            !.fulfilled_by = user.pk],
          raised |-> "none"]

(* TaxCycleObligation.mark_unfulfilled() *)
mark_unfulfilled(o) ==
    [row |-> [o EXCEPT !.status = OBLIGATION_STATUS_PENDING,
                       !.fulfilled_date = Null,
                       !.fulfilled_by = Null],
     raised |-> "none"]

(* Variant: fulfilled_by = user if user else None *)
mark_failed_any_user(o, user) ==
    IF ~Assignable(user) THEN [row |-> o, raised |-> "ValueError"]
    ELSE [row |-> [o EXCEPT !.status = OBLIGATION_STATUS_FAILED,
                            !.fulfilled_date = Null,
                            !.fulfilled_by = user.pk],
          raised |-> "none"]

(* Variant: the fulfilment time survives the failure *)
mark_failed_keeps_date(o, user) ==
    [row |-> [o EXCEPT !.status = OBLIGATION_STATUS_FAILED,
                       !.fulfilled_by = IF user.kind # "none" /\ user.pk # Null
                                        THEN user.pk ELSE Null],
     raised |-> "none"]

(* TaxCycleObligation.mark_failed(user=None, notes=None):
   fulfilled_by = user if user and getattr(user, "pk", None) else None *)
mark_failed(o, user) ==
    [row |-> [o EXCEPT !.status = OBLIGATION_STATUS_FAILED,
                       !.fulfilled_date = Null,
                       !.fulfilled_by = IF user.kind # "none" /\ user.pk # Null
                                        THEN user.pk ELSE Null],
     raised |-> "none"]

(* The record of an operation called on an obligation *)
CalledOn(op, o, user, raised) ==
    [NoCall EXCEPT !.op = op, !.obligation = o.id, !.cycle = o.tax_cycle,
                   !.before = Some(o), !.actor = Some(user), !.raised = raised]

(* The row of the obligation the latest operation was called on, as it is now *)
TargetObligation == CHOOSE o \in obligations : o.id = call.obligation

(* obligation.mark_fulfilled(request.user) *)
MarkFulfilled ==
    \E o \in obligations, user \in RequestUsers :
        LET r == mark_fulfilled(o, user, today)
        IN /\ steps < MaxSteps
           /\ obligations' = (obligations \ {o}) \cup {r.row}
           /\ call' = CalledOn("mark_fulfilled", o, user, r.raised)
           /\ steps' = steps + 1
           /\ run' = NoRun
           /\ UNCHANGED notify_vars /\ UNCHANGED <<left_out, manual, workers, today, ownerships, assignments, cycles>>

(* obligation.mark_unfulfilled() *)
MarkUnfulfilled ==
    \E o \in obligations :
        LET r == mark_unfulfilled(o)
        IN /\ steps < MaxSteps
           /\ obligations' = (obligations \ {o}) \cup {r.row}
           /\ call' = CalledOn("mark_unfulfilled", o, NoUser, r.raised)
           /\ steps' = steps + 1
           /\ run' = NoRun
           /\ UNCHANGED notify_vars /\ UNCHANGED <<left_out, manual, workers, today, ownerships, assignments, cycles>>

(* obligation.mark_failed(user) *)
MarkFailed ==
    \E o \in obligations, user \in OptionalUsers :
        LET r == mark_failed(o, user)
        IN /\ steps < MaxSteps
           /\ obligations' = (obligations \ {o}) \cup {r.row}
           /\ call' = CalledOn("mark_failed", o, user, r.raised)
           /\ steps' = steps + 1
           /\ run' = NoRun
           /\ UNCHANGED notify_vars /\ UNCHANGED <<left_out, manual, workers, today, ownerships, assignments, cycles>>

----------------------------------------------------------------------------
(* Discord notifications: configuration, log and the automated sweep *)

(* The notification types of the sweep, in the order of the cycles_by_type dict *)
BucketSeq == <<"ADVANCE", "DUE", "OVERDUE">>
Buckets == {BucketSeq[i] : i \in 1..Len(BucketSeq)}

(* f"BATCHED_{notification_type}" *)
BatchedTag == [b \in Buckets |->
                 CASE b = "ADVANCE" -> "BATCHED_ADVANCE"
                   [] b = "DUE" -> "BATCHED_DUE"
                   [] b = "OVERDUE" -> "BATCHED_OVERDUE"]

(* A DiscordNotificationConfig row *)
Config(days, advance, due, overdue, active) ==
    [advance_notice_days |-> days, send_advance_notice |-> advance,
     send_due_notice |-> due, send_overdue_notice |-> overdue, is_active |-> active]

(* The rows an administrator enters: advance_notice_days is a
   PositiveIntegerField (zero allowed), the flags are free *)
Configs ==
    {Config(30, TRUE, TRUE, TRUE, TRUE),
     Config(1, TRUE, FALSE, TRUE, TRUE),
     Config(30, FALSE, TRUE, FALSE, TRUE),
     Config(0, FALSE, TRUE, TRUE, TRUE),
     Config(30, TRUE, TRUE, TRUE, FALSE)}

(* Variant: the first config row is taken, active or not *)
FirstConfig(cfg) == cfg

(* DiscordNotificationConfig.objects.filter(is_active=True).first() *)
ActiveConfig(cfg) == IF cfg # Null /\ cfg[1].is_active THEN cfg ELSE Null

(* Variant: every cycle is fetched, whatever its status *)
AllCycles(cs) == cs

(* TaxCycle.objects.filter(status__in=["PENDING", "OVERDUE"]) *)
OpenCycles(cs) == {c \in cs : c.status \in {"PENDING", "OVERDUE"}}

(* Meta.ordering = ["-period_start"]: the rows as the queryset yields them,
   latest period first, rows of the same period by primary key *)
RECURSIVE QuerysetOrder(_)
QuerysetOrder(rows) ==
    IF rows = {} THEN <<>>
    ELSE LET first == CHOOSE c \in rows : \A z \in rows :
                          \/ DateLT(z.period_start, c.period_start)
                          \/ z.period_start = c.period_start /\ c.id <= z.id
         IN <<first>> \o QuerysetOrder(rows \ {first})

(* Variant: ADVANCE on every date inside the notice window *)
notification_type_within_notice(c, day, cfg) ==
    LET d == DaysBetween(c.due_date, day)
    IN IF d > 0 /\ d <= cfg.advance_notice_days /\ cfg.send_advance_notice THEN "ADVANCE"
       ELSE IF d = 0 /\ cfg.send_due_notice THEN "DUE"
       ELSE IF d < 0 /\ cfg.send_overdue_notice /\ c.status \in {"PENDING", "OVERDUE"}
       THEN "OVERDUE"
       ELSE "none"

(* The if/elif chain of the sweep: the notification type of a cycle, or "none" *)
notification_type(c, day, cfg) ==
    LET d == DaysBetween(c.due_date, day)
    IN IF d = cfg.advance_notice_days /\ cfg.send_advance_notice THEN "ADVANCE"
       ELSE IF d = 0 /\ cfg.send_due_notice THEN "DUE"
       ELSE IF d < 0 /\ cfg.send_overdue_notice /\ c.status \in {"PENDING", "OVERDUE"}
       THEN "OVERDUE"
       ELSE "none"

(* Variant: a log entry of today suppresses whether or not it succeeded *)
existing_log_any_outcome(ls, c, type, day) ==
    \E l \in ls : /\ l.tax_cycle = c.id
                  /\ l.notification_type = BatchedTag[type]
                  /\ l.sent_date = day

(* Variant: a successful entry of the date suppresses whatever its tag *)
existing_log_any_tag(ls, c, type, day) ==
    \E l \in ls : /\ l.tax_cycle = c.id
                  /\ l.sent_date = day
                  /\ l.success

(* DiscordNotificationLog.objects.filter(tax_cycle=cycle,
   notification_type=f"BATCHED_{notification_type}", sent_date=today,
   success=True).exists() *)
existing_log(ls, c, type, day) ==
    \E l \in ls : /\ l.tax_cycle = c.id
                  /\ l.notification_type = BatchedTag[type]
                  /\ l.sent_date = day
                  /\ l.success

(* The empty cycles_by_type dict *)
NoBatch == [b \in Buckets |-> <<>>]

(* Variant: a cycle due today is also appended to the OVERDUE list *)
AppendDueAlsoOverdue(by_type, c, type) ==
    IF type = "DUE"
    THEN [by_type EXCEPT !["DUE"] = Append(@, c.id), !["OVERDUE"] = Append(@, c.id)]
    ELSE [by_type EXCEPT ![type] = Append(@, c.id)]

(* cycles_by_type[notification_type].append(cycle) *)
AppendToBucket(by_type, c, type) == [by_type EXCEPT ![type] = Append(@, c.id)]

(* for cycle in tax_cycles: classify, check the log, append.  The
   accumulator is the record of the sweep: the dict, the type given to
   every cycle, and the order of the steps taken. *)
RECURSIVE ClassifyLoop(_, _, _, _, _)
ClassifyLoop(acc, todo, ls, day, cfg) ==
    IF todo = <<>> THEN acc
    ELSE LET c == Head(todo)
             type == notification_type(c, day, cfg)
             seen == [acc EXCEPT !.classified = @ \cup {[cycle |-> c.id, type |-> type]},
                                 !.trace = Append(@, <<"classify", c.id>>)]
         IN IF type = "none"
            THEN ClassifyLoop(seen, Tail(todo), ls, day, cfg)
            ELSE LET checked == [seen EXCEPT !.trace = Append(@, <<"check_log", c.id>>)]
                 IN IF existing_log(ls, c, type, day)
                    THEN ClassifyLoop(checked, Tail(todo), ls, day, cfg)
                    ELSE ClassifyLoop(
                            [checked EXCEPT !.cycles_by_type = AppendToBucket(@, c, type)],
                            Tail(todo), ls, day, cfg)

(* all_cycles: the lists of the dict, one after the other *)
AllBatchCycles(by_type) == by_type["ADVANCE"] \o by_type["DUE"] \o by_type["OVERDUE"]

(* What requests.post does: a response with a status code, or an exception
   (requests.exceptions.Timeout, ConnectionError) *)
PostOutcomes ==
    {[kind |-> "response", status_code |-> 204],
     [kind |-> "response", status_code |-> 500],
     [kind |-> "exception", status_code |-> 0]}

(* Variant: the exception of requests.post is not caught *)
send_batched_uncaught(post) ==
    IF post.kind = "exception"
    THEN [raised |-> TRUE, success |-> FALSE, status_code |-> 0, error_message |-> ""]
    ELSE IF post.status_code = 204
    THEN [raised |-> FALSE, success |-> TRUE, status_code |-> 204, error_message |-> ""]
    ELSE [raised |-> FALSE, success |-> FALSE, status_code |-> post.status_code,
          error_message |-> "Discord API returned status"]

(* send_batched_discord_notification: the (success, status_code, error) tuple *)
send_batched_discord_notification(post) ==
    IF post.kind = "exception"
    THEN [raised |-> FALSE, success |-> FALSE, status_code |-> 0,
          error_message |-> "Unexpected error sending batched Discord notification"]
    ELSE IF post.status_code = 204
    THEN [raised |-> FALSE, success |-> TRUE, status_code |-> 204, error_message |-> ""]
    ELSE [raised |-> FALSE, success |-> FALSE, status_code |-> post.status_code,
          error_message |-> "Discord API returned status"]

(* The type the logging loop recomputes for a cycle of the batch *)
cycle_notification_type(c, day, cfg) ==
    LET d == DaysBetween(c.due_date, day)
    IN IF d = cfg.advance_notice_days THEN "ADVANCE"
       ELSE IF d = 0 THEN "DUE"
       ELSE "OVERDUE"

(* Variant: the entry of the same cycle, type and date is overwritten *)
log_notification_upsert(ls, c, tag, day, result) ==
    LET same == {l \in ls : l.tax_cycle = c.id /\ l.notification_type = tag
                            /\ l.sent_date = day}
        kept == ls \ same
    IN kept \cup {[id |-> NextPk(kept), tax_cycle |-> c.id, notification_type |-> tag,
                   sent_date |-> day, success |-> result.success,
                   response_status |-> result.status_code,
                   error_message |-> result.error_message]}

(* log_notification: DiscordNotificationLog.objects.create(...) *)
log_notification(ls, c, tag, day, result) ==
    ls \cup {[id |-> NextPk(ls), tax_cycle |-> c.id, notification_type |-> tag,
              sent_date |-> day, success |-> result.success,
              response_status |-> result.status_code,
              error_message |-> result.error_message]}

(* Variant: only the first cycle of the batch is logged *)
RECURSIVE LogFirstOnly(_, _, _, _, _, _)
LogFirstOnly(ls, ids, cs, day, cfg, result) ==
    IF ids = <<>> THEN ls
    ELSE LET c == CHOOSE x \in cs : x.id = Head(ids)
         IN log_notification(ls, c, BatchedTag[cycle_notification_type(c, day, cfg)],
                             day, result)

(* for cycle in all_cycles: log_notification(...) *)
RECURSIVE LogLoop(_, _, _, _, _, _)
LogLoop(ls, ids, cs, day, cfg, result) ==
    IF ids = <<>> THEN ls
    ELSE LET c == CHOOSE x \in cs : x.id = Head(ids)
         IN LogLoop(log_notification(ls, c,
                                     BatchedTag[cycle_notification_type(c, day, cfg)],
                                     day, result),
                    Tail(ids), cs, day, cfg, result)

(* The summary dict *)
Summary(checked, sent, failed, batched, found) ==
    [cycles_checked |-> checked, notifications_sent |-> sent,
     notifications_failed |-> failed, batched_messages_sent |-> batched,
     config_found |-> found]

(* The record of a sweep: the clock, config row, cycle table and log table it
   read, the summary it returned, the type the classifier gave every cycle
   it fetched, the dict it built, the order of its steps, the number of
   requests.post calls, the delivery result, the sweep before it, and the
   embed built for the delivery call *)
NoSweep ==
    [seq |-> 0, day |-> Null, cfg |-> Null, table |-> {}, logs_before |-> {},
     summary |-> Summary(0, 0, 0, 0, FALSE),
     classified |-> {}, cycles_by_type |-> NoBatch, trace |-> <<>>,
     posts |-> 0, result |-> Null, prev |-> Null, embed |-> Null]

(* The day count create_batched_discord_embed prints on a line of the field
   of bucket b: (cycles[0].due_date - today).days for ADVANCE, none for DUE,
   (today - cycles[0].due_date).days for OVERDUE; first is cycles[0] *)
DayCount(b, first, due, day) ==
    IF b = "ADVANCE" THEN Some(DaysBetween(first.due_date, day))
    ELSE IF b = "DUE" THEN Null
    ELSE Some(DaysBetween(day, first.due_date))

(* create_batched_discord_embed: the bucket the title and description are
   worded for (the first key of the dict, whose empty lists were removed),
   the count they print, and per bucket the lines of its field, one per due
   date of the list.  Colour, group names and the order and truncation of
   the lines are left out. *)
create_batched_discord_embed(by_type, table, day) ==
    LET row(id) == CHOOSE c \in table : c.id = id
        rows(b) == [i \in 1..Len(by_type[b]) |-> row(by_type[b][i])]
        systems_by_date(b) ==
            {[due_date |-> d,
              systems |-> {rows(b)[i].system_ownership :
                              i \in {j \in 1..Len(rows(b)) : rows(b)[j].due_date = d}},
              days |-> DayCount(b, rows(b)[1], d, day)] :
                d \in {rows(b)[i].due_date : i \in 1..Len(rows(b))}}
    IN [notification_type |->
            IF by_type["ADVANCE"] # <<>> THEN "ADVANCE"
            ELSE IF by_type["DUE"] # <<>> THEN "DUE" ELSE "OVERDUE",
        total_cycles |-> Len(by_type["ADVANCE"]) + Len(by_type["DUE"])
                            + Len(by_type["OVERDUE"]),
        fields |-> [b \in Buckets |-> systems_by_date(b)]]

(* One message handed to requests.post *)
Message(by_type, day, post) ==
    [day |-> day, cycles_by_type |-> by_type,
     accepted |-> post.kind = "response" /\ post.status_code = 204]

(* Variant: one call per non-empty list of the dict *)
DeliverPerBucket(by_type, day, post) ==
    LET one(b) == IF by_type[b] = <<>> THEN <<>>
                  ELSE <<Message([NoBatch EXCEPT ![b] = by_type[b]], day, post)>>
    IN one("ADVANCE") \o one("DUE") \o one("OVERDUE")

(* The single send_batched_discord_notification call of a sweep *)
Deliver(by_type, day, post) == <<Message(by_type, day, post)>>

RECURSIVE TraceOf(_, _)
TraceOf(kind, ids) ==
    IF ids = <<>> THEN <<>> ELSE <<(<<kind, Head(ids)>>)>> \o TraceOf(kind, Tail(ids))

(* The first half of process_all_tax_cycle_notifications: the config lookup
   and the classification loop with its suppression queries, as a function
   of the database and the clock.  The result is the sweep's local state. *)
SweepClassify(cs, ls, cfg0, day) ==
    LET found == ActiveConfig(cfg0)
        start == [NoSweep EXCEPT !.day = Some(day), !.cfg = cfg0, !.table = cs,
                                 !.logs_before = ls]
    IN IF found = Null THEN start
       ELSE LET tax_cycles == OpenCycles(cs)
                loop == ClassifyLoop(start, QuerysetOrder(tax_cycles), ls, day, found[1])
            IN [loop EXCEPT !.summary = Summary(Cardinality(tax_cycles), 0, 0, 0, TRUE)]

(* The second half: the delivery call and the logging loop, run from the
   sweep's local state against the log table as it is now *)
SweepDeliver(local, ls, day, post) ==
    LET all_cycles == AllBatchCycles(local.cycles_by_type)
        checked == local.summary.cycles_checked
    IN IF ~local.summary.config_found \/ all_cycles = <<>>
       THEN [logs |-> ls, posts |-> <<>>, rec |-> local]
       ELSE
        LET cfg == local.cfg[1]
            posts == Deliver(local.cycles_by_type, day, post)
            result == send_batched_discord_notification(post)
            sent == [local EXCEPT
                       !.trace = @ \o TraceOf("deliver", [i \in 1..Len(posts) |-> 0]),
                       !.posts = Len(posts),
                       !.embed = Some(create_batched_discord_embed(
                                         local.cycles_by_type, local.table, day))]
        IN IF result.raised
           THEN (* except Exception: the error is logged, the summary returned *)
                [logs |-> ls, posts |-> posts, rec |-> sent]
           ELSE [logs |-> LogLoop(ls, all_cycles, local.table, day, cfg, result),
                 posts |-> posts,
                 rec |-> [sent EXCEPT
                            !.trace = @ \o TraceOf("log", all_cycles),
                            !.result = Some(result),
                            !.summary =
                                IF result.success
                                THEN Summary(checked, Len(all_cycles), 0, 1, TRUE)
                                ELSE Summary(checked, 0, Len(all_cycles), 0, TRUE)]]

(* process_all_tax_cycle_notifications run without interruption: the log
   table after the sweep, the messages posted, and the record of the sweep *)
SweepRun(cs, ls, cfg0, day, post) ==
    SweepDeliver(SweepClassify(cs, ls, cfg0, day), ls, day, post)

(* What a sweep record keeps of the sweep before it *)
Earlier(rec) ==
    IF rec.seq = 0 THEN Null
    ELSE Some([day |-> rec.day, cfg |-> rec.cfg, table |-> rec.table,
               cycles_by_type |-> rec.cycles_by_type, result |-> rec.result,
               summary |-> rec.summary])

(* tasks.send_discord_notifications: one automated sweep *)
send_discord_notifications ==
    \E post \in PostOutcomes :
        LET r == SweepRun(cycles, logs, config, today, post)
        IN /\ steps < MaxSteps
           /\ logs' = r.logs
           /\ outbox' = outbox \o r.posts
           /\ sweep' = [r.rec EXCEPT !.seq = sweep.seq + 1, !.prev = Earlier(sweep)]
           /\ steps' = steps + 1
           /\ run' = NoRun
           /\ call' = NoCall
           /\ UNCHANGED <<left_out, manual, workers, today, ownerships, assignments, cycles, obligations, config>>

(* A worker starts tasks.send_discord_notifications and runs it up to the
   end of the classification loop: every suppression query has been answered
   from the log table as it is now *)
SweepRead(w) ==
    /\ workers[w].pc = "idle"
    /\ workers' = [workers EXCEPT ![w] =
                     [pc |-> "classified",
                      local |-> SweepClassify(cycles, logs, config, today)]]
    /\ UNCHANGED <<left_out, today, steps, ownerships, assignments, cycles, obligations, run, call,
                   config, logs, outbox, sweep, manual>>

(* The worker goes on: the delivery call and the logging loop *)
SweepSend(w) ==
    \E post \in PostOutcomes :
        LET r == SweepDeliver(workers[w].local, logs, today, post)
        IN /\ workers[w].pc = "classified"
           /\ steps < MaxSteps
           /\ logs' = r.logs
           /\ outbox' = outbox \o r.posts
           /\ sweep' = [r.rec EXCEPT !.seq = sweep.seq + 1, !.prev = Earlier(sweep)]
           /\ workers' = [workers EXCEPT ![w] = Idle]
           /\ steps' = steps + 1
           /\ run' = NoRun
           /\ call' = NoCall
           /\ UNCHANGED <<left_out, manual, today, ownerships, assignments, cycles, obligations, config>>

(* DiscordNotificationConfigAdmin add form: the configuration row is entered *)
AdminAddConfig ==
    \E cfg \in Configs :
        /\ config = Null
        /\ config' = Some(cfg)
        /\ run' = NoRun
        /\ call' = NoCall
        /\ UNCHANGED <<left_out, manual, workers, today, steps, ownerships, assignments, cycles, obligations,
                       logs, outbox, sweep>>

(* DiscordNotificationConfigAdmin add form, saved with the field defaults:
   advance_notice_days 7, the three notices on, is_active on *)
AdminAddDefaultConfig ==
    /\ config = Null
    /\ config' = Some(Config(7, TRUE, TRUE, TRUE, TRUE))
    /\ run' = NoRun
    /\ call' = NoCall
    /\ UNCHANGED <<left_out, manual, workers, today, steps, ownerships, assignments, cycles,
                   obligations, logs, outbox, sweep>>

----------------------------------------------------------------------------
(* TaxCycleAdmin: the reminder actions and the test action *)

(* f"ADMIN_{chosen_type}" *)
AdminTag == [b \in Buckets |->
               CASE b = "ADVANCE" -> "ADMIN_ADVANCE"
                 [] b = "DUE" -> "ADMIN_DUE"
                 [] b = "OVERDUE" -> "ADMIN_OVERDUE"]

(* f"TEST_{notification_type}" *)
TestTag == [b \in Buckets |->
              CASE b = "ADVANCE" -> "TEST_ADVANCE"
                [] b = "DUE" -> "TEST_DUE"
                [] b = "OVERDUE" -> "TEST_OVERDUE"]

(* The changelist queryset of the selected rows: ordering -period_start, -pk *)
RECURSIVE ChangelistOrder(_)
ChangelistOrder(rows) ==
    IF rows = {} THEN <<>>
    ELSE LET first == CHOOSE c \in rows : \A z \in rows :
                          \/ DateLT(z.period_start, c.period_start)
                          \/ z.period_start = c.period_start /\ z.id <= c.id
         IN <<first.id>> \o ChangelistOrder(rows \ {first})

(* The selections an administrator makes on the changelist: one row, or all *)
Selections(cs) == {{c} : c \in cs} \cup (IF cs = {} THEN {} ELSE {cs})

(* for cycle in all_cycles: log_notification(notification_type=tag) *)
RECURSIVE LogEach(_, _, _, _, _, _)
LogEach(ls, ids, cs, tag, day, result) ==
    IF ids = <<>> THEN ls
    ELSE LogEach(log_notification(ls, CHOOSE x \in cs : x.id = Head(ids), tag, day, result),
                 Tail(ids), cs, tag, day, result)

(* for cycle in queryset: for notification_type in [...]: log_notification *)
RECURSIVE LogTests(_, _, _, _, _)
LogTests(ls, ids, cs, day, result) ==
    IF ids = <<>> THEN ls
    ELSE LET c == CHOOSE x \in cs : x.id = Head(ids)
             a == log_notification(ls, c, TestTag["ADVANCE"], day, result)
             d == log_notification(a, c, TestTag["DUE"], day, result)
             o == log_notification(d, c, TestTag["OVERDUE"], day, result)
         IN LogTests(o, Tail(ids), cs, day, result)

(* The record of a send made from the changelist: the action, the chosen
   type, the selected rows in queryset order, the clock, config row and log
   table it read, the messages it posted and the delivery result *)
NoManual ==
    [kind |-> "none", chosen |-> Null, selected |-> <<>>, day |-> Null,
     cfg |-> Null, logs_before |-> {}, logs_after |-> {}, posts |-> <<>>,
     result |-> Null]

(* Variant: the cycles a chosen type does not apply to on this day are left out *)
SelectDueOnly(sel, chosen_type, day, cfg) ==
    {c \in sel : cfg # Null /\ cycle_notification_type(c, day, cfg[1]) = chosen_type}

(* for cycle in queryset: cycles_by_type[chosen_type].append(cycle) *)
SelectAll(sel, chosen_type, day, cfg) == sel

(* TaxCycleAdmin._send_discord_reminder_type as a function of the database,
   the selection, the clock and the outcome of requests.post *)
SendReminderType(cs, ls, cfg0, sel, chosen_type, day, post) ==
    LET found == ActiveConfig(cfg0)
        ids == ChangelistOrder(SelectAll(sel, chosen_type, day, cfg0))
        start == [NoManual EXCEPT !.kind = "admin", !.chosen = Some(chosen_type),
                                  !.selected = ChangelistOrder(sel),
                                  !.day = Some(day), !.cfg = cfg0,
                                  !.logs_before = ls]
    IN IF found = Null \/ ids = <<>>
       THEN [logs |-> ls, posts |-> <<>>, rec |-> start]
       ELSE LET by_type == [NoBatch EXCEPT ![chosen_type] = ids]
                posts == Deliver(by_type, day, post)
                result == send_batched_discord_notification(post)
            IN IF result.raised
               THEN [logs |-> ls, posts |-> posts,
                     rec |-> [start EXCEPT !.posts = posts]]
               ELSE [logs |-> LogEach(ls, ids, cs, AdminTag[chosen_type], day, result),
                     posts |-> posts,
                     rec |-> [start EXCEPT !.posts = posts,
                                           !.result = Some(result)]]

(* TaxCycleAdmin.send_test_discord_notifications *)
SendTest(cs, ls, cfg0, sel, day, post) ==
    LET found == ActiveConfig(cfg0)
        ids == ChangelistOrder(sel)
        start == [NoManual EXCEPT !.kind = "test", !.selected = ids,
                                  !.day = Some(day), !.cfg = cfg0,
                                  !.logs_before = ls]
    IN IF Cardinality(sel) > 10 \/ found = Null
       THEN [logs |-> ls, posts |-> <<>>, rec |-> start]
       ELSE LET by_type == [b \in Buckets |-> ids]
                posts == Deliver(by_type, day, post)
                result == send_batched_discord_notification(post)
            IN IF result.raised
               THEN [logs |-> ls, posts |-> posts,
                     rec |-> [start EXCEPT !.posts = posts]]
               ELSE [logs |-> LogTests(ls, ids, cs, day, result),
                     posts |-> posts,
                     rec |-> [start EXCEPT !.posts = posts,
                                           !.result = Some(result)]]

(* The admin actions send_discord_reminder_advance / _due / _overdue *)
send_discord_reminder ==
    \E sel \in Selections(cycles), chosen_type \in Buckets, post \in PostOutcomes :
        LET r == SendReminderType(cycles, logs, config, sel, chosen_type, today, post)
        IN /\ steps < MaxSteps
           /\ logs' = r.logs
           /\ outbox' = outbox \o r.posts
           /\ manual' = [r.rec EXCEPT !.logs_after = r.logs]
           /\ steps' = steps + 1
           /\ run' = NoRun
           /\ call' = NoCall
           /\ UNCHANGED <<left_out, workers, today, ownerships, assignments, cycles, obligations,
                          config, sweep>>

(* The admin action send_test_discord_notifications *)
send_test_discord_notifications ==
    \E sel \in Selections(cycles), post \in PostOutcomes :
        LET r == SendTest(cycles, logs, config, sel, today, post)
        IN /\ steps < MaxSteps
           /\ logs' = r.logs
           /\ outbox' = outbox \o r.posts
           /\ manual' = [r.rec EXCEPT !.logs_after = r.logs]
           /\ steps' = steps + 1
           /\ run' = NoRun
           /\ call' = NoCall
           /\ UNCHANGED <<left_out, workers, today, ownerships, assignments, cycles, obligations,
                          config, sweep>>

----------------------------------------------------------------------------
(* Environment: the clock and the administrator *)

(* The clock moves to the next day or to the first day of the next month *)
AdvanceToday ==
    /\ steps < MaxSteps
    /\ \E d \in {NextDay(today), _next_month(today)} : today' = d
    /\ steps' = steps + 1
    /\ run' = NoRun
    /\ call' = NoCall
    /\ UNCHANGED notify_vars /\ UNCHANGED <<left_out, manual, workers, ownerships, assignments, cycles, obligations>>

(* SystemOwnershipAdmin change form: default_tax_amount_isk *)
AdminSetTaxAmount ==
    \E so \in Owners, a \in Amounts :
        /\ steps < MaxSteps
        /\ ownerships[so].default_tax_amount_isk # a
        /\ ownerships' = [ownerships EXCEPT ![so].default_tax_amount_isk = a]
        /\ run' = NoRun
        /\ call' = NoCall
        /\ steps' = steps + 1
        /\ UNCHANGED notify_vars /\ UNCHANGED <<left_out, manual, workers, today, assignments, cycles, obligations>>

(* SystemOwnershipAdmin change form: tax_active *)
AdminSetTaxActive ==
    \E so \in Owners :
        /\ steps < MaxSteps
        /\ ownerships' = [ownerships EXCEPT ![so].tax_active = ~@]
        /\ run' = NoRun
        /\ call' = NoCall
        /\ steps' = steps + 1
        /\ UNCHANGED notify_vars /\ UNCHANGED <<left_out, manual, workers, today, assignments, cycles, obligations>>

(* SystemObligationTypeInline / SystemObligationTypeAdmin: is_active *)
AdminSetAssignment ==
    \E so \in Owners, t \in Types :
        /\ steps < MaxSteps
        /\ assignments' = [assignments EXCEPT ![<<so, t>>] = ~@]
        /\ run' = NoRun
        /\ call' = NoCall
        /\ steps' = steps + 1
        /\ UNCHANGED notify_vars /\ UNCHANGED <<left_out, manual, workers, today, ownerships, cycles, obligations>>

(* TaxCycleAdmin add form: a cycle entered by hand for the previous, the
   current or the next month.  The ModelForm runs clean() and validate_unique(). *)
AdminAddCycle ==
    \E so \in Owners, a \in HandAmounts,
       ps \in {PrevMonth(today), _first_of_month(today), _next_month(today)} :
        /\ steps < MaxSteps
        /\ UniqueTogetherOK(cycles, so, ps)
        /\ LET pe == Date(ps.y, ps.m, monthrange(ps.y, ps.m))
           IN cycles' = cycles \cup
                {NewCycle(NextPk(cycles), so, ps, pe, pe, TAXCYCLE_STATUS_PENDING, a)}
        /\ run' = NoRun
        /\ call' = NoCall
        /\ steps' = steps + 1
        /\ UNCHANGED notify_vars /\ UNCHANGED <<left_out, manual, workers, today, ownerships, assignments, obligations>>

----------------------------------------------------------------------------

Init ==
    /\ today \in InitDates
    /\ steps = 0
    /\ ownerships = [so \in Owners |->
                       [tax_active |-> TRUE,
                        default_tax_amount_isk |-> IF so = OwnerSeq[1] THEN 1 ELSE 0]]
    /\ assignments = [p \in Owners \X Types |-> FALSE]
    /\ cycles = {}
    /\ obligations = {}
    /\ run = NoRun
    /\ call = NoCall
    /\ config = Null
    /\ logs = {}
    /\ outbox = <<>>
    /\ sweep = NoSweep
    /\ manual = NoManual
    /\ left_out = {}
    /\ workers = [w \in Workers |-> Idle]

Next ==
    \/ generate_monthly_tax_cycles
    \/ AdvanceToday
    \/ AdminSetTaxAmount
    \/ AdminSetTaxActive
    \/ AdminSetAssignment
    \/ AdminAddCycle

Spec == Init /\ [][Next]_vars

(* The cycle state machine: generated cycles, the clock, and the official
   status operations *)
NextCycle ==
    \/ generate_monthly_tax_cycles
    \/ AdvanceToday
    \/ SetStatusPaid
    \/ SetStatusWrittenOff
    \/ SetStatusPending
    \/ mark_cycle_paid
    \/ mark_as_paid
    \/ mark_cycle_pending
    \/ AdminChangeStatus

SpecCycle == Init /\ [][NextCycle]_vars

(* Self-reporting: generated cycles, the clock, the self-report operations
   and the status operations that close and reopen a cycle *)
NextReport ==
    \/ generate_monthly_tax_cycles
    \/ AdvanceToday
    \/ MarkAsPaidByUser
    \/ UnmarkAsPaidByUser
    \/ ToggleUserMarkPaid
    \/ toggle_user_marked_paid
    \/ SetStatusWrittenOff
    \/ SetStatusPending

SpecReport == Init /\ [][NextReport]_vars

(* Notifications: generated cycles, the clock, the configuration, the status
   field of a cycle, and the automated sweep *)
NextNotify ==
    \/ generate_monthly_tax_cycles
    \/ AdvanceToday
    \/ AdminChangeStatus
    \/ AdminAddConfig
    \/ send_discord_notifications

SpecNotify == Init /\ [][NextNotify]_vars

(* The generator under failing statements: runs, the clock, the default
   amount and the obligation assignments *)
NextFault ==
    \/ generate_monthly_tax_cycles
    \/ GenerateUnderFaults
    \/ AdvanceToday
    \/ AdminSetTaxAmount
    \/ AdminSetAssignment

SpecFault == Init /\ [][NextFault]_vars

(* Every writer of the notification log: the automated sweep, the reminder
   actions and the test action, over generated cycles and the configuration *)
NextSends ==
    \/ generate_monthly_tax_cycles
    \/ AdminAddDefaultConfig
    \/ send_discord_notifications
    \/ send_discord_reminder
    \/ send_test_discord_notifications

SpecSends == Init /\ [][NextSends]_vars

(* The reminder actions of the changelist, over generated cycles, the clock
   and the configuration *)
NextAdmin ==
    \/ generate_monthly_tax_cycles
    \/ AdvanceToday
    \/ AdminAddDefaultConfig
    \/ send_discord_reminder

SpecAdmin == Init /\ [][NextAdmin]_vars

(* The fields of a cycle under everything that writes a cycle row: the
   generator, the default amount of the ownership, the status operations,
   the self-report operations and the admin change form *)
NextFrame ==
    \/ generate_monthly_tax_cycles
    \/ AdminSetTaxAmount
    \/ SetStatusPaid
    \/ SetStatusWrittenOff
    \/ SetStatusPending
    \/ mark_cycle_pending
    \/ MarkAsPaidByUser
    \/ UnmarkAsPaidByUser
    \/ ToggleUserMarkPaid
    \/ toggle_user_marked_paid
    \/ AdminChangeTargetAmount

SpecFrame == Init /\ [][NextFrame]_vars

(* Obligations: generated cycles, the obligation assignments of an
   ownership, and the three status operations of an obligation *)
NextObligation ==
    \/ generate_monthly_tax_cycles
    \/ AdminSetAssignment
    \/ MarkFulfilled
    \/ MarkUnfulfilled
    \/ MarkFailed

SpecObligation == Init /\ [][NextObligation]_vars

(* The generator against cycles that are closed and obligations that are met *)
NextCompletion ==
    \/ generate_monthly_tax_cycles
    \/ AdminSetAssignment
    \/ SetStatusPaid
    \/ SetStatusWrittenOff
    \/ MarkFulfilled

SpecCompletion == Init /\ [][NextCompletion]_vars

(* Two workers running the automated sweep at once, over generated cycles
   and the configuration.  The step between the classification loop and the
   delivery call is where the two sweeps interleave. *)
NextSweepRace ==
    \/ generate_monthly_tax_cycles
    \/ AdminAddDefaultConfig
    \/ \E w \in Workers : SweepRead(w)
    \/ \E w \in Workers : SweepSend(w)

SpecSweepRace == Init /\ [][NextSweepRace]_vars

(* A month passes before the workers start *)
MonthPassesBeforeRuns ==
    /\ \A w \in Workers : workers[w].pc = "idle"
    /\ steps < MaxSteps
    /\ today' = _next_month(today)
    /\ steps' = steps + 1
    /\ run' = NoRun
    /\ call' = NoCall
    /\ UNCHANGED notify_vars
    /\ UNCHANGED <<left_out, manual, workers, ownerships, assignments, cycles, obligations>>

(* An uninterrupted run made before the workers start *)
GenerateBeforeRuns ==
    /\ \A w \in Workers : workers[w].pc = "idle"
    /\ generate_monthly_tax_cycles

(* Two workers running the generator at once, over earlier uninterrupted
   runs and the clock.  The workers interleave between the queries of a run. *)
NextGenRace ==
    \/ GenerateBeforeRuns
    \/ MonthPassesBeforeRuns
    \/ \E w \in Workers : GenStart(w)
    \/ \E w \in Workers : GenOwner(w)
    \/ \E w \in Workers : GenCheck(w)
    \/ \E w \in Workers : GenAct(w)

SpecGenRace == Init /\ [][NextGenRace]_vars

----------------------------------------------------------------------------
(* Properties of the generator and the synchronizer, checked under Spec *)

current_month_start == _first_of_month(today)

HasCycle(so, month) == \E c \in cycles : c.system_ownership = so /\ c.period_start = month

(* The month the loop starts from for an ownership, read off the cycle table *)
StartMonth(so) ==
    LET e == EarliestExisting(cycles, so)
    IN IF e # Null THEN _first_of_month(e[1]) ELSE current_month_start

SkippedUnits == {u \in run.units : u.outcome \in {"existing", "no_rate"}}

(* C1: a second run for the same today, with nothing changed since the first,
   creates no cycle. *)
C1_SecondRunCreatesNothing == run.n >= 2 => run.created = 0

C1_Witness == run.n = 2 /\ run.first_created > 0 /\ run.created = 0

(* C2: at most one TaxCycle exists per (system_ownership, period_start). *)
C2_OneCyclePerOwnershipMonth ==
    \A c1 \in cycles, c2 \in cycles :
        (c1.system_ownership = c2.system_ownership /\ c1.period_start = c2.period_start)
            => c1 = c2

C2_Witness ==
    /\ run.n = 2
    /\ \E u \in run.units : u.outcome = "existing"
    /\ \E c1 \in cycles, c2 \in cycles :
          c1.system_ownership = c2.system_ownership /\ c1.period_start # c2.period_start

(* C3: after a run, every tax-active ownership with a positive default amount
   has a cycle for every month from its earliest cycle (or the current month)
   through the current month, and in particular for the current month. *)
C3_CurrentMonthAlwaysCovered ==
    run.n >= 1 =>
        \A so \in Owners :
            (ownerships[so].tax_active /\ ownerships[so].default_tax_amount_isk > 0) =>
                /\ \A m \in MonthsFromTo(StartMonth(so), current_month_start) : HasCycle(so, m)
                /\ HasCycle(so, current_month_start)

(* The part of C3 the loop does deliver: the months from the earliest cycle
   through the current month are covered. *)
C3_RangeCovered ==
    run.n >= 1 =>
        \A so \in Owners :
            (ownerships[so].tax_active /\ ownerships[so].default_tax_amount_isk > 0) =>
                \A m \in MonthsFromTo(StartMonth(so), current_month_start) : HasCycle(so, m)

(* C4: a run creates no cycle for an ownership whose default amount is absent
   or <= 0; each such month is counted as skipped. *)
C4_NoCycleWithoutRate ==
    run.n >= 1 =>
        /\ \A c \in cycles :
              c.id \in run.created_ids => ownerships[c.system_ownership].default_tax_amount_isk > 0
        /\ \A u \in run.units :
              u.outcome = "created" => ownerships[u.so].default_tax_amount_isk > 0
        /\ \A so \in Owners :
              (ownerships[so].tax_active /\ ownerships[so].default_tax_amount_isk <= 0) =>
                  \A m \in MonthsFromTo(StartMonth(so), current_month_start) :
                      \/ Unit(so, m, "existing") \in run.units
                      \/ Unit(so, m, "no_rate") \in run.units /\ ~HasCycle(so, m)
        /\ run.skipped = Cardinality(SkippedUnits)
        /\ run.created = Cardinality(run.created_ids)

C4_Witness ==
    /\ run.n >= 1
    /\ run.created > 0
    /\ \E u1 \in run.units, u2 \in run.units :
          /\ u1.outcome = "no_rate" /\ u2.outcome = "no_rate"
          /\ u1.so = u2.so /\ u1.month # u2.month
          /\ ownerships[u1.so].default_tax_amount_isk <= 0

(* Last day of a month by the calendar rule: 30 days for April, June,
   September and November, 28 or 29 for February, 31 otherwise. *)
LastDayOfMonth(y, m) ==
    CASE m \in {4, 6, 9, 11} -> 30
      [] m = 2 /\ (y % 400 = 0 \/ (y % 4 = 0 /\ y % 100 # 0)) -> 29
      [] m = 2 -> 28
      [] OTHER -> 31

(* C5: every cycle the generator creates is PENDING, starts on the first day
   of its month, ends on the last day of that month, is due on its end date
   and carries the ownership's resolved amount. *)
C5_CreatedCycleFields ==
    run.n >= 1 =>
        \A c \in cycles :
            c.id \in run.created_ids =>
                /\ c.status = TAXCYCLE_STATUS_PENDING
                /\ c.period_start.d = 1
                /\ c.period_end = Date(c.period_start.y, c.period_start.m,
                                       LastDayOfMonth(c.period_start.y, c.period_start.m))
                /\ c.due_date = c.period_end
                /\ c.target_amount = ownerships[c.system_ownership].default_tax_amount_isk
                /\ DateLT(c.period_start, c.period_end)
                /\ DateLE(c.period_end, c.due_date)

C5_Witness ==
    /\ run.n >= 1
    /\ \E c \in cycles : c.id \in run.created_ids /\ c.period_end.d = 29
    /\ \E c \in cycles : c.id \in run.created_ids /\ c.target_amount = 2

(* C6: for a visited (ownership, month) whose cycle existed before the run,
   the run creates no cycle, counts the month as skipped and leaves the
   existing cycle with an obligation for every active assignment. *)
C6_ExistingCycleSynchronized ==
    run.n >= 1 =>
        /\ \A c \in cycles :
              (/\ c.id \notin run.created_ids
               /\ ownerships[c.system_ownership].tax_active
               /\ DateLE(c.period_start, current_month_start)) =>
                  /\ Unit(c.system_ownership, c.period_start, "existing") \in run.units
                  /\ Unit(c.system_ownership, c.period_start, "created") \notin run.units
                  /\ \A t \in ActiveTypes(assignments, c.system_ownership) :
                        \E o \in obligations : o.tax_cycle = c.id /\ o.obligation_type = t
        /\ Cardinality({u \in run.units : u.outcome = "existing"}) <= run.skipped

C6_Witness ==
    /\ run.n = 1
    /\ run.created = 0
    /\ run.obligations_created > 0
    /\ \E u \in run.units : u.outcome = "existing"

(* The state part of C7: a repeated run and a repeated synchronizer call
   create no obligation, and (cycle, type) identifies an obligation. *)
C7_SyncStable ==
    /\ run.n >= 2 => run.obligations_created = 0
    /\ \A c \in cycles :
          LET once == _ensure_cycle_obligations(obligations, assignments, c)
          IN _ensure_cycle_obligations(once.obligations, assignments, c).created = 0
    /\ \A o1 \in obligations, o2 \in obligations :
          (o1.tax_cycle = o2.tax_cycle /\ o1.obligation_type = o2.obligation_type) => o1 = o2

(* C7: the synchronizer is idempotent and additive-only: run again on an
   unchanged assignment set it creates nothing, there is at most one
   obligation per (cycle, type), and no step (deactivating an assignment
   included) removes or changes an obligation already created. *)
C7_SyncIdempotentAdditive ==
    [](C7_SyncStable) /\ [][obligations \subseteq obligations']_vars

C7_Witness ==
    /\ run.n = 2
    /\ run.obligations_created = 0
    /\ \E o \in obligations, c \in cycles :
          /\ o.tax_cycle = c.id
          /\ ~assignments[<<c.system_ownership, o.obligation_type>>]

----------------------------------------------------------------------------
(* Properties of the TaxCycle status operations, checked under SpecCycle *)

PaidPaths == {"set_status_paid", "mark_cycle_paid", "mark_as_paid"}

(* C8: set_status_paid(amount) with amount < target_amount raises
   ValidationError and leaves the stored cycle as it was. *)
C8_UnderpaymentRejected ==
    (/\ call.op = "set_status_paid"
     /\ call.amount # Null
     /\ call.amount[1] < call.before[1].target_amount) =>
        /\ call.raised = "ValidationError"
        /\ Target = call.before[1]

(* C9: on a cycle that is already PAID or WRITTEN_OFF, no path that marks a
   cycle paid changes its status, paid_amount or paid_date. *)
C9_PaidOnlyFromOpen ==
    (/\ call.op \in PaidPaths
     /\ call.before[1].status \in {TAXCYCLE_STATUS_PAID, TAXCYCLE_STATUS_WRITTEN_OFF}) =>
        /\ Target.status = call.before[1].status
        /\ Target.paid_amount = call.before[1].paid_amount
        /\ Target.paid_date = call.before[1].paid_date

(* C10: set_status_paid() with no amount and no date on a PENDING cycle
   gives status PAID, paid_amount = target_amount and paid_date = today. *)
C10_PaidDefaults ==
    (/\ call.op = "set_status_paid"
     /\ call.amount = Null
     /\ call.paid_date = Null
     /\ call.before[1].status = TAXCYCLE_STATUS_PENDING) =>
        /\ call.raised = "none"
        /\ Target.status = TAXCYCLE_STATUS_PAID
        /\ Target.paid_amount = Some(call.before[1].target_amount)
        /\ Target.paid_date = Some(today)

C10_Witness ==
    /\ call.op = "set_status_paid"
    /\ call.amount = Null
    /\ call.paid_date = Null
    /\ call.before[1].status = TAXCYCLE_STATUS_PENDING
    /\ call.before[1].id \in {c.id : c \in cycles}
    /\ Target.status = TAXCYCLE_STATUS_PAID
    /\ Target.paid_date # Some(Target.period_start)

----------------------------------------------------------------------------
(* Properties of the self-report operations, checked under SpecReport *)

ReportPaths ==
    {"mark_as_paid_by_user", "toggle_user_mark_paid", "toggle_user_marked_paid"}

(* The self-report window: status PENDING and at most 7 days to the due date *)
InReportWindow(c) ==
    c.status = TAXCYCLE_STATUS_PENDING /\ DaysBetween(c.due_date, today) <= 7

(* C11: an attempt to set user_marked_paid outside the window (status not
   PENDING, or more than 7 days before the due date), through the model
   operations or the toggle_user_marked_paid view, leaves user_marked_paid
   and user_marked_paid_at unchanged and returns a failure indicator. *)
C11_SelfReportGated ==
    (/\ call.op \in ReportPaths
     /\ ~call.before[1].user_marked_paid
     /\ ~InReportWindow(call.before[1])) =>
        /\ Target.user_marked_paid = FALSE
        /\ Target.user_marked_paid_at = call.before[1].user_marked_paid_at
        /\ call.returned = Some(FALSE)

(* The part of C11 the model operations deliver: mark_as_paid_by_user and
   toggle_user_mark_paid refuse outside the window and set the flag inside it. *)
C11_ModelOperationsGated ==
    (/\ call.op \in {"mark_as_paid_by_user", "toggle_user_mark_paid"}
     /\ ~call.before[1].user_marked_paid) =>
        IF InReportWindow(call.before[1])
        THEN Target.user_marked_paid /\ call.returned = Some(TRUE)
        ELSE Target = call.before[1] /\ call.returned = Some(FALSE)

----------------------------------------------------------------------------
(* Properties of the automated notification sweep, checked under SpecNotify *)

(* The ids in list b of a cycles_by_type dict *)
BucketSet(by_type, b) == {by_type[b][i] : i \in 1..Len(by_type[b])}

(* The ids in any list of the dict *)
BatchSet(by_type) == UNION {BucketSet(by_type, b) : b \in Buckets}

BatchLen(by_type) == Len(by_type["ADVANCE"]) + Len(by_type["DUE"]) + Len(by_type["OVERDUE"])

(* The latest sweep found an active config *)
SweepRan == sweep.seq >= 1 /\ sweep.cfg # Null /\ sweep.cfg[1].is_active

(* The log rows the latest sweep wrote *)
SweepLogged == logs \ sweep.logs_before

(* The type the latest sweep's classifier gave cycle c, "none" if it gave none *)
Given(c) ==
    IF \E e \in sweep.classified : e.cycle = c.id
    THEN (CHOOSE e \in sweep.classified : e.cycle = c.id).type
    ELSE "none"

IsOpen(c) == c.status \in {TAXCYCLE_STATUS_PENDING, TAXCYCLE_STATUS_OVERDUE}

(* due_date - today at the time of the latest sweep *)
DaysLeft(c) == DaysBetween(c.due_date, sweep.day[1])

(* C12: with advance_notice_days # 0, one sweep puts a cycle into no list or
   into exactly one of the lists ADVANCE, DUE, OVERDUE, and only once. *)
C12_AtMostOneBucket ==
    (SweepRan /\ sweep.cfg[1].advance_notice_days # 0) =>
        /\ \A c \in sweep.table :
              Cardinality({b \in Buckets : c.id \in BucketSet(sweep.cycles_by_type, b)}) <= 1
        /\ BatchLen(sweep.cycles_by_type) = Cardinality(BatchSet(sweep.cycles_by_type))
        /\ \A e1 \in sweep.classified, e2 \in sweep.classified :
              e1.cycle = e2.cycle => e1 = e2

C12_Witness ==
    /\ SweepRan
    /\ sweep.cfg[1].advance_notice_days # 0
    /\ sweep.cycles_by_type["ADVANCE"] # <<>>
    /\ sweep.cycles_by_type["OVERDUE"] # <<>>

(* C13: with advance_notice_days # 0, the classifier gives a cycle ADVANCE
   iff it is open (PENDING or OVERDUE), due_date - today = advance_notice_days
   and advance notices are enabled; DUE iff open, due today and due notices
   enabled; OVERDUE iff open, past due and overdue notices enabled; nothing
   otherwise.  A PAID or WRITTEN_OFF cycle is never given a type. *)
C13_ClassifierMatchesRule ==
    (SweepRan /\ sweep.cfg[1].advance_notice_days # 0) =>
        \A c \in sweep.table :
            LET cfg == sweep.cfg[1]
            IN /\ Given(c) = "ADVANCE" <=>
                     (/\ IsOpen(c)
                      /\ DaysLeft(c) = cfg.advance_notice_days
                      /\ cfg.send_advance_notice)
               /\ Given(c) = "DUE" <=>
                     (IsOpen(c) /\ DaysLeft(c) = 0 /\ cfg.send_due_notice)
               /\ Given(c) = "OVERDUE" <=>
                     (IsOpen(c) /\ DaysLeft(c) < 0 /\ cfg.send_overdue_notice)
               /\ Given(c) \in Buckets \cup {"none"}
               /\ c.status \in {TAXCYCLE_STATUS_PAID, TAXCYCLE_STATUS_WRITTEN_OFF}
                     => /\ Given(c) = "none"
                        /\ c.id \notin BatchSet(sweep.cycles_by_type)

C13_Witness ==
    /\ SweepRan
    /\ sweep.cfg[1].advance_notice_days # 0
    /\ \E c \in sweep.table :
          /\ c.status = TAXCYCLE_STATUS_PAID
          /\ DaysLeft(c) < 0
          /\ sweep.cfg[1].send_overdue_notice
    /\ \E c \in sweep.table : Given(c) = "ADVANCE"

(* The accepted messages of day d that carry cycle id in list b *)
AcceptedFor(id, b, d) ==
    {i \in 1..Len(outbox) :
        /\ outbox[i].accepted
        /\ outbox[i].day = d
        /\ id \in BucketSet(outbox[i].cycles_by_type, b)}

(* The first half of C14: a cycle with a successful BATCHED_<b> entry of the
   sweep's date is not put into list b by the sweep. *)
C14_LoggedBucketSuppressed ==
    SweepRan =>
        \A l \in sweep.logs_before, b \in Buckets :
            (/\ l.success
             /\ l.sent_date = sweep.day[1]
             /\ l.notification_type = BatchedTag[b])
                => l.tax_cycle \notin BucketSet(sweep.cycles_by_type, b)

(* C14: once a successful BATCHED_<b> log entry exists for a cycle on a date,
   no later sweep of that date selects the cycle for b again, so the cycle
   gets at most one successful automated notification per bucket per day. *)
C14_OncePerCycleBucketDay ==
    /\ C14_LoggedBucketSuppressed
    /\ \A c \in cycles, b \in Buckets :
          \A i \in 1..Len(outbox) :
              Cardinality(AcceptedFor(c.id, b, outbox[i].day)) <= 1

(* C15: over the sweeps of one date at most one batch is delivered per
   bucket: two accepted messages of the same date never both carry a
   non-empty list for the same bucket. *)
C15_OneBatchPerBucketDay ==
    \A i \in 1..Len(outbox), j \in 1..Len(outbox) :
        (/\ i < j
         /\ outbox[i].day = outbox[j].day
         /\ outbox[i].accepted
         /\ outbox[j].accepted)
            => \A b \in Buckets :
                  ~(/\ outbox[i].cycles_by_type[b] # <<>>
                    /\ outbox[j].cycles_by_type[b] # <<>>)

(* The positions in the latest sweep's trace of the steps of kind k *)
StepsOf(k) == {i \in 1..Len(sweep.trace) : sweep.trace[i][1] = k}

(* C16: one sweep makes no delivery call when it selected no cycle and
   exactly one otherwise, and the call comes after every open cycle has been
   classified: no classification or log check follows it. *)
C16_SingleDeliveryAfterClassification ==
    SweepRan =>
        /\ sweep.posts <= 1
        /\ sweep.posts = 0 <=> BatchSet(sweep.cycles_by_type) = {}
        /\ Cardinality(StepsOf("deliver")) = sweep.posts
        /\ \A d \in StepsOf("deliver") :
              /\ \A i \in StepsOf("classify") \cup StepsOf("check_log") : i < d
              /\ \A c \in sweep.table :
                    IsOpen(c) => \E i \in StepsOf("classify") :
                                    sweep.trace[i][2] = c.id /\ i < d

C16_Witness ==
    /\ SweepRan
    /\ sweep.posts = 1
    /\ Len(outbox) = 1
    /\ sweep.prev # Null
    /\ sweep.prev[1].cfg = sweep.cfg
    /\ sweep.prev[1].summary.config_found
    /\ sweep.prev[1].summary.cycles_checked > 0
    /\ BatchSet(sweep.prev[1].cycles_by_type) = {}

(* C17: after the delivery call of a sweep returns, with success or with
   failure, exactly one log entry is written for every cycle of the batch,
   and all of them carry the same success flag, status code and error text. *)
C17_OneLogPerBatchCycle ==
    (SweepRan /\ sweep.posts >= 1) =>
        /\ sweep.result # Null
        /\ \A id \in BatchSet(sweep.cycles_by_type) :
              Cardinality({l \in SweepLogged : l.tax_cycle = id}) = 1
        /\ Cardinality(SweepLogged) = BatchLen(sweep.cycles_by_type)
        /\ \A l \in SweepLogged :
              /\ l.tax_cycle \in BatchSet(sweep.cycles_by_type)
              /\ l.sent_date = sweep.day[1]
              /\ l.success = sweep.result[1].success
              /\ l.response_status = sweep.result[1].status_code
              /\ l.error_message = sweep.result[1].error_message
        /\ sweep.logs_before \subseteq logs

C17_Witness ==
    /\ SweepRan
    /\ sweep.posts = 1
    /\ sweep.result # Null
    /\ sweep.result[1].status_code = 500
    /\ Len(sweep.cycles_by_type["OVERDUE"]) = 2
    /\ Cardinality(SweepLogged) = 2

(* The state part of C18: every cycle of a failed batch that is still open
   is selected for the same bucket by the next sweep of the same date. *)
C18_FailedBatchSelectedAgain ==
    (/\ SweepRan
     /\ sweep.prev # Null
     /\ sweep.prev[1].result # Null
     /\ ~sweep.prev[1].result[1].success
     /\ sweep.prev[1].day = sweep.day
     /\ sweep.prev[1].cfg = sweep.cfg) =>
        \A b \in Buckets : \A id \in BucketSet(sweep.prev[1].cycles_by_type, b) :
            (\E c \in sweep.table : c.id = id /\ IsOpen(c))
                => id \in BucketSet(sweep.cycles_by_type, b)

(* C18: a logged delivery failure does not block retry: the next sweep of the
   same date selects the cycles of the failed batch again, and nothing is
   posted to the webhook except by a new sweep. *)
C18_FailureDoesNotBlockRetry ==
    /\ [](C18_FailedBatchSelectedAgain)
    /\ [][outbox' # outbox =>
            /\ sweep'.seq = sweep.seq + 1
            /\ Len(outbox') = Len(outbox) + sweep'.posts]_vars

C18_Witness ==
    /\ SweepRan
    /\ sweep.prev # Null
    /\ sweep.prev[1].result # Null
    /\ ~sweep.prev[1].result[1].success
    /\ sweep.prev[1].day = sweep.day
    /\ BatchSet(sweep.prev[1].cycles_by_type) # {}
    /\ sweep.cycles_by_type = sweep.prev[1].cycles_by_type
    /\ \E l \in sweep.logs_before : ~l.success /\ l.sent_date = sweep.day[1]
    /\ Len(outbox) = 2

(* C19: with no active DiscordNotificationConfig a sweep returns
   config_found = false and all counts 0, makes no delivery call and writes
   no log entry. *)
C19_NoActiveConfig ==
    (/\ sweep.seq >= 1
     /\ (sweep.cfg = Null \/ ~sweep.cfg[1].is_active)) =>
        /\ sweep.summary = Summary(0, 0, 0, 0, FALSE)
        /\ sweep.posts = 0
        /\ sweep.trace = <<>>
        /\ logs = sweep.logs_before

C19_Witness ==
    /\ sweep.seq >= 1
    /\ sweep.cfg # Null
    /\ ~sweep.cfg[1].is_active
    /\ \E c \in sweep.table : IsOpen(c) /\ DaysLeft(c) <= 0
    /\ sweep.summary.cycles_checked = 0
    /\ outbox = <<>>

(* C20: a delivery that times out, fails on the network or gets a status
   other than 204 is turned into (success = false, status code, error text);
   a failed log entry is written for every cycle of the batch, and the sweep
   returns its summary with notifications_failed = the size of the batch and
   notifications_sent = 0. *)
C20_DeliveryFailureContained ==
    (/\ SweepRan
     /\ sweep.posts >= 1
     /\ ~outbox[Len(outbox)].accepted) =>
        /\ sweep.result # Null
        /\ sweep.result[1].success = FALSE
        /\ sweep.result[1].error_message # ""
        /\ \A id \in BatchSet(sweep.cycles_by_type) :
              \E l \in SweepLogged : l.tax_cycle = id /\ ~l.success
        /\ sweep.summary.notifications_failed = BatchLen(sweep.cycles_by_type)
        /\ sweep.summary.notifications_sent = 0
        /\ sweep.summary.batched_messages_sent = 0
        /\ sweep.summary.config_found

C20_Witness ==
    /\ SweepRan
    /\ sweep.posts = 1
    /\ ~outbox[Len(outbox)].accepted
    /\ sweep.result # Null
    /\ sweep.result[1].status_code = 0
    /\ sweep.summary.notifications_failed >= 1
    /\ \E l \in SweepLogged : l.response_status = 0

----------------------------------------------------------------------------
(* Properties of a run during which a statement raises, checked under
   SpecFault *)

(* The month the loop of the latest run started from for an ownership, read
   off the cycle table as it was when the run began *)
StartMonthBefore(so) ==
    LET e == EarliestExisting(run.before, so)
    IN IF e # Null THEN _first_of_month(e[1]) ELSE current_month_start

(* The months the latest run had to visit for an ownership *)
MonthsOfRun(so) == MonthsFromTo(StartMonthBefore(so), current_month_start)

(* The failing statement f was executed by the latest run *)
FaultHit(f) ==
    /\ ownerships[f.so].tax_active
    /\ \/ f.at = "owner"
       \/ /\ f.at \in {"query", "sync"}
          /\ Fault(f.so, Null, "owner") \notin run.faults
          /\ f.month \in MonthsOfRun(f.so)
          /\ f.at = "sync" =>
               \/ ExistingCycles(run.before, f.so, f.month) # {}
               \/ ~NoValidRate(get_current_tax_amount(ownerships[f.so]))

(* The latest run went through (ownership, month) without an exception *)
Processed(so, month) ==
    /\ \E u \in run.units : u.so = so /\ u.month = month /\ u.outcome # "error"
    /\ ~NoValidRate(get_current_tax_amount(ownerships[so])) => HasCycle(so, month)

(* C21: in a run during which statements raise, every failure that is hit is
   counted in errors, every other month of every other ownership is still
   processed, and the cycles the run created, like those that existed before
   it, are in the table afterwards. *)
C21_FailureDoesNotStopRun ==
    run.faults # {} =>
      /\ run.errors = Cardinality({f \in run.faults : FaultHit(f)})
      /\ \A so \in Owners :
           (ownerships[so].tax_active /\ Fault(so, Null, "owner") \notin run.faults) =>
             \A m \in MonthsOfRun(so) :
               (\A at \in {"query", "sync"} : Fault(so, m, at) \notin run.faults)
                 => Processed(so, m)
      /\ run.before \subseteq cycles
      /\ \A id \in run.created_ids : \E c \in cycles : c.id = id

(* C21 witness: the run failed on one month of an ownership and created the
   cycle of a later month of the same ownership *)
C21_Witness ==
    /\ run.errors = 1
    /\ \E u \in run.units, v \in run.units :
         /\ u.outcome = "error" /\ u.month # Null
         /\ v.so = u.so /\ v.outcome = "created" /\ DateLT(u.month, v.month)
         /\ HasCycle(v.so, v.month)

(* A run abandoned one ownership and created a cycle for the next one *)
C21_OwnerFailureWitness ==
    /\ run.errors = 1
    /\ Unit(OwnerSeq[1], Null, "error") \in run.units
    /\ \E v \in run.units : v.so = OwnerSeq[2] /\ v.outcome = "created"

----------------------------------------------------------------------------
(* Properties of the notification log and of the reminder actions, checked
   under SpecSends and SpecAdmin *)

(* The entries of the log whose type is one of the three tags of a family *)
Tagged(ls, tags) == {l \in ls : \E b \in Buckets : l.notification_type = tags[b]}

(* C22: the notification log is append-only: whatever step is taken among the
   automated sweep, the reminder actions and the test action, every entry
   written earlier is still in the log with all its fields unchanged, so the
   log never shrinks. *)
C22_LogAppendOnly == [][logs \subseteq logs']_vars

(* C22 witness: the log holds entries written by a sweep, by a reminder
   action and by the test action, the later ones written over the earlier *)
C22_Witness ==
    /\ Tagged(logs, BatchedTag) # {}
    /\ Tagged(logs, AdminTag) # {}
    /\ Tagged(logs, TestTag) # {}

(* The entries the latest reminder action wrote *)
ManualWritten == manual.logs_after \ manual.logs_before

(* C26: a reminder action run with an active configuration makes one
   delivery call whose chosen bucket lists every selected cycle and whose
   other buckets are empty, whatever the due dates and whatever the log
   already holds, and writes exactly one ADMIN_<bucket> entry per selected
   cycle, carrying the result of that call. *)
C26_AdminSendDeliversSelection ==
    (manual.kind = "admin" /\ manual.cfg # Null /\ manual.cfg[1].is_active) =>
      LET chosen == manual.chosen[1]
          ids == {manual.selected[i] : i \in 1..Len(manual.selected)}
      IN /\ Len(manual.posts) = 1
         /\ manual.posts[1].cycles_by_type[chosen] = manual.selected
         /\ \A b \in Buckets \ {chosen} : manual.posts[1].cycles_by_type[b] = <<>>
         /\ manual.result # Null
         /\ manual.posts[1].accepted = manual.result[1].success
         /\ Cardinality(ManualWritten) = Cardinality(ids)
         /\ \A id \in ids :
              \E l \in ManualWritten :
                /\ l.tax_cycle = id
                /\ l.notification_type = AdminTag[chosen]
                /\ l.sent_date = manual.day[1]
                /\ l.success = manual.result[1].success
                /\ l.response_status = manual.result[1].status_code
                /\ l.error_message = manual.result[1].error_message

(* C26 witness: a reminder action delivered two selected cycles as OVERDUE,
   one of them not yet due and one already holding a successful entry of
   that bucket for the day *)
C26_Witness ==
    /\ manual.kind = "admin" /\ manual.chosen = Some("OVERDUE")
    /\ manual.cfg # Null /\ manual.cfg[1].is_active
    /\ Len(manual.selected) = 2
    /\ manual.result # Null /\ manual.result[1].success
    /\ \E c \in cycles : c.id = manual.selected[1] /\ DateLE(manual.day[1], c.due_date)
    /\ \E l \in manual.logs_before :
         /\ l.tax_cycle \in {manual.selected[1], manual.selected[2]}
         /\ l.notification_type = AdminTag["OVERDUE"]
         /\ l.sent_date = manual.day[1] /\ l.success

----------------------------------------------------------------------------
(* Further properties of the cycle state machine, checked under SpecCycle *)

(* C23: whatever sequence of status operations is applied to generated
   cycles, a cycle holds a paid_date only while its status is PAID or
   WRITTEN_OFF. *)
C23_PaidDateOnlyWhenClosed ==
    \A c \in cycles :
        c.paid_date # Null
          => c.status \in {TAXCYCLE_STATUS_PAID, TAXCYCLE_STATUS_WRITTEN_OFF}

(* C23 witness: a cycle that held a paid_date has been set back to PENDING
   by set_status_pending or by the mark_cycle_pending view *)
C23_Witness ==
    /\ call.op \in {"set_status_pending", "mark_cycle_pending"}
    /\ call.before # Null /\ call.before[1].paid_date # Null
    /\ Target.status = TAXCYCLE_STATUS_PENDING /\ Target.paid_date = Null

(* C28 as stated: can_be_set_to_paid is true exactly for PENDING and OVERDUE
   cycles.  The code compares the status with PENDING alone. *)
C28_CanBeSetToPaid ==
    \A c \in cycles :
        can_be_set_to_paid(c)
          <=> c.status \in {TAXCYCLE_STATUS_PENDING, TAXCYCLE_STATUS_OVERDUE}

----------------------------------------------------------------------------
(* Frame properties of the cycle row, checked under SpecFrame *)

(* Every cycle of this state that is still there after the step has kept
   its target_amount *)
TargetAmountKept ==
    \A c \in cycles : \A d \in cycles' : d.id = c.id => d.target_amount = c.target_amount

(* C24 as stated: the target_amount of a cycle never changes after the cycle
   is created.  The admin change form edits the field. *)
C24_TargetAmountImmutable == [][TargetAmountKept]_vars

(* The part of C24 that holds: no status operation, self-report operation,
   generation run or change of the default amount changes a target_amount *)
C24_OperationsKeepTargetAmount ==
    [][call'.op # "admin_change_target_amount" => TargetAmountKept]_vars

(* C27: set_status_pending stores PENDING and clears paid_amount and
   paid_date; called with clear_user_flags true it also clears
   user_marked_paid and user_marked_paid_at, and called with false it leaves
   both as they were. *)
C27_SetStatusPendingFrame ==
    call.op = "set_status_pending" =>
      LET before == call.before[1]
      IN /\ Target.status = TAXCYCLE_STATUS_PENDING
         /\ Target.paid_amount = Null
         /\ Target.paid_date = Null
         /\ IF call.clear_user_flags
            THEN Target.user_marked_paid = FALSE /\ Target.user_marked_paid_at = Null
            ELSE /\ Target.user_marked_paid = before.user_marked_paid
                 /\ Target.user_marked_paid_at = before.user_marked_paid_at
         /\ Target = [before EXCEPT !.status = Target.status,
                                    !.paid_amount = Target.paid_amount,
                                    !.paid_date = Target.paid_date,
                                    !.user_marked_paid = Target.user_marked_paid,
                                    !.user_marked_paid_at = Target.user_marked_paid_at]

(* C27 witness: a PAID cycle carrying the self-report flag has been set back
   to PENDING with clear_user_flags false, and the flag is still there *)
C27_Witness ==
    /\ call.op = "set_status_pending" /\ ~call.clear_user_flags
    /\ call.before[1].status = TAXCYCLE_STATUS_PAID
    /\ call.before[1].user_marked_paid
    /\ Target.user_marked_paid /\ Target.user_marked_paid_at # Null
    /\ Target.paid_date = Null

----------------------------------------------------------------------------
(* Properties of the obligation operations, checked under SpecObligation *)

(* The fields of an obligation that no status operation writes *)
SameObligation(a, b) ==
    a.id = b.id /\ a.tax_cycle = b.tax_cycle /\ a.obligation_type = b.obligation_type

(* C25: whatever the status of an obligation, each operation succeeds:
   mark_fulfilled leaves it COMPLETED with fulfilled_date and fulfilled_by
   stamped, mark_unfulfilled leaves it PENDING with both cleared, and
   mark_failed leaves it FAILED with fulfilled_date cleared and fulfilled_by
   set to the actor when a saved user is passed and null otherwise. *)
C25_ObligationOperations ==
    call.op \in {"mark_fulfilled", "mark_unfulfilled", "mark_failed"} =>
      LET o == TargetObligation
          user == call.actor[1]
      IN /\ call.raised = "none"
         /\ SameObligation(o, call.before[1])
         /\ call.op = "mark_fulfilled" =>
              /\ o.status = OBLIGATION_STATUS_COMPLETED
              /\ o.fulfilled_date = Some(today)
              /\ o.fulfilled_by # Null /\ o.fulfilled_by = user.pk
         /\ call.op = "mark_unfulfilled" =>
              /\ o.status = OBLIGATION_STATUS_PENDING
              /\ o.fulfilled_date = Null
              /\ o.fulfilled_by = Null
         /\ call.op = "mark_failed" =>
              /\ o.status = OBLIGATION_STATUS_FAILED
              /\ o.fulfilled_date = Null
              /\ o.fulfilled_by = IF user.kind = "user" THEN user.pk ELSE Null

(* C25 witness: mark_failed was called with the AnonymousUser on a COMPLETED
   obligation that carried an actor, and left it FAILED with no actor *)
C25_Witness ==
    /\ call.op = "mark_failed" /\ call.actor = Some(AnonymousUser)
    /\ call.before[1].status = OBLIGATION_STATUS_COMPLETED
    /\ call.before[1].fulfilled_by # Null
    /\ TargetObligation.status = OBLIGATION_STATUS_FAILED
    /\ TargetObligation.fulfilled_by = Null

(* Every operation has been applied from every status *)
C25_FromEveryStatus(op, status) ==
    call.op = op /\ call.before # Null /\ call.before[1].status = status

----------------------------------------------------------------------------
(* Properties of overlapping task runs, checked under SpecSweepRace and
   SpecGenRace *)

(* The accepted messages of the outbox that list a cycle in a bucket on a day *)
Deliveries(id, b, day) ==
    {i \in 1..Len(outbox) :
        /\ outbox[i].accepted /\ outbox[i].day = day
        /\ \E k \in 1..Len(outbox[i].cycles_by_type[b]) :
             outbox[i].cycles_by_type[b][k] = id}

(* C29 as stated: when automated sweeps overlap, no cycle is delivered twice
   for the same bucket on one date and no cycle holds two successful
   BATCHED_<bucket> entries for that date.  Nothing orders the suppression
   query of one sweep after the log write of the other. *)
C29_OverlapDeliversOnce ==
    /\ \A c \in cycles, b \in Buckets :
         Cardinality(Deliveries(c.id, b, today)) <= 1
    /\ \A l1 \in logs, l2 \in logs :
         (/\ l1.tax_cycle = l2.tax_cycle
          /\ l1.sent_date = l2.sent_date
          /\ l1.notification_type = l2.notification_type
          /\ \E b \in Buckets : l1.notification_type = BatchedTag[b]
          /\ l1.success /\ l2.success)
           => l1.id = l2.id

(* The ownerships a finished worker went through, with the month each
   while loop started from *)
StartsOf(l) == {l.starts[k] : k \in 1..Len(l.starts)}

(* C30: when two runs overlap and both find a (ownership, month) missing,
   one cycle results for the pair; the run whose INSERT is rejected counts
   an error for that month, keeps every cycle it created in its other
   units, and still goes through every remaining month and ownership. *)
C30_RaceLeavesOneCycle ==
    /\ \A c \in cycles, d \in cycles :
         (c.system_ownership = d.system_ownership /\ c.period_start = d.period_start)
           => c.id = d.id
    /\ \A w \in Workers : workers[w].pc = "done" =>
         LET l == workers[w]
         IN /\ l.acc.errors = Cardinality({u \in l.acc.units : u.outcome = "error"})
            /\ \A u \in l.acc.units : u.outcome = "error" =>
                 \E c \in cycles :
                   /\ c.system_ownership = u.so /\ c.period_start = u.month
                   /\ c.id \notin l.acc.created_ids
            /\ \A id \in l.acc.created_ids : \E c \in cycles : c.id = id
            /\ \A so \in Owners : l.owns[so].tax_active =>
                 \E st \in StartsOf(l) :
                   /\ st[1] = so
                   /\ \A m \in MonthsFromTo(st[2], l.end_month) :
                        /\ \E u \in l.acc.units : u.so = so /\ u.month = m
                        /\ ~NoValidRate(get_current_tax_amount(l.owns[so]))
                             => HasCycle(so, m)

(* C30 witness: both workers have finished; one of them lost the race for a
   month, then created the cycle of a later month of the same ownership and
   went through the next ownership *)
C30_Witness ==
    /\ \A w \in Workers : workers[w].pc = "done"
    /\ \E w \in Workers :
         \E u \in workers[w].acc.units, v \in workers[w].acc.units,
            x \in workers[w].acc.units :
           /\ u.outcome = "error"
           /\ v.so = u.so /\ v.outcome = "created" /\ DateLT(u.month, v.month)
           /\ x.so # u.so
           /\ HasCycle(u.so, u.month) /\ HasCycle(v.so, v.month)

----------------------------------------------------------------------------
(* Invariants of the obligation row, checked under SpecObligation *)

(* C38: whatever sequence of mark_fulfilled, mark_unfulfilled and mark_failed
   is applied to obligations created by the synchronizer, an obligation has
   a fulfilled_date exactly when it is COMPLETED, and a PENDING obligation
   has no fulfilled_by. *)
C38_ObligationStamps ==
    \A o \in obligations :
        /\ (o.fulfilled_date # Null) <=> (o.status = OBLIGATION_STATUS_COMPLETED)
        /\ o.status = OBLIGATION_STATUS_PENDING => o.fulfilled_by = Null

(* C38 witness: a COMPLETED obligation, stamped with a date and an actor,
   has been marked failed by a saved user: the date is gone and the status
   is FAILED *)
C38_Witness ==
    /\ call.op = "mark_failed" /\ call.actor # Null /\ call.actor[1].kind = "user"
    /\ call.before[1].status = OBLIGATION_STATUS_COMPLETED
    /\ call.before[1].fulfilled_date # Null
    /\ \E o \in obligations :
         /\ o.id = call.obligation
         /\ o.status = OBLIGATION_STATUS_FAILED
         /\ o.fulfilled_date = Null /\ o.fulfilled_by # Null

----------------------------------------------------------------------------
(* Invariants of the self-report fields, checked under SpecFrame *)

(* The operations a user reports a payment with *)
SelfReportOps ==
    {"mark_as_paid_by_user", "unmark_as_paid_by_user", "toggle_user_mark_paid",
     "toggle_user_marked_paid"}

(* C39: whatever sequence of self-report operations and status operations is
   applied, a cycle has a user_marked_paid_at exactly when user_marked_paid
   is true, and a self-report operation leaves status, paid_amount and
   paid_date as they were. *)
C39_SelfReportFields ==
    /\ \A c \in cycles : (c.user_marked_paid_at # Null) <=> c.user_marked_paid
    /\ call.op \in SelfReportOps =>
         /\ Target.status = call.before[1].status
         /\ Target.paid_amount = call.before[1].paid_amount
         /\ Target.paid_date = call.before[1].paid_date

(* C39 witness: a PAID cycle that carried the flag and its timestamp has had
   both removed by a self-report operation, and is still PAID with its
   payment date *)
C39_Witness ==
    /\ call.op \in SelfReportOps
    /\ call.before[1].user_marked_paid /\ call.before[1].user_marked_paid_at # Null
    /\ call.before[1].status = TAXCYCLE_STATUS_PAID
    /\ ~Target.user_marked_paid /\ Target.user_marked_paid_at = Null
    /\ Target.status = TAXCYCLE_STATUS_PAID /\ Target.paid_date # Null

----------------------------------------------------------------------------
(* Properties of the batch of one sweep, checked under SpecNotify *)

(* C33: every BATCHED_ log entry written by a sweep carries the bucket the
   same sweep classified its cycle into, for every config row, with
   advance_notice_days = 0 and with disabled notice types included. *)
C33_LoggedTagIsClassifiedBucket ==
    SweepRan =>
        \A l \in SweepLogged :
            \E b \in Buckets :
                /\ l.notification_type = BatchedTag[b]
                /\ l.tax_cycle \in BucketSet(sweep.cycles_by_type, b)

(* The sweep made its delivery call: the embed of the call *)
Embedded == SweepRan /\ sweep.embed # Null

(* C31: in a batch section, the day count shown for each due-date group
   (days until due for ADVANCE, days overdue for OVERDUE) is the number of
   days between the sweep's date and that group's own due date, for any set
   of cycles in the bucket, cycles with different due dates included. *)
C31_DayCountOfOwnDueDate ==
    Embedded =>
        \A b \in {"ADVANCE", "OVERDUE"} :
            \A g \in sweep.embed[1].fields[b] :
                g.days = Some(IF b = "ADVANCE"
                              THEN DaysBetween(g.due_date, sweep.day[1])
                              ELSE DaysBetween(sweep.day[1], g.due_date))

(* C32: the batch built by one automated sweep holds cycles of exactly one
   bucket, and the title and count of the message, worded for the first
   bucket present, describe every cycle counted. *)
C32_OneBucketPerBatch ==
    Embedded =>
        /\ Cardinality({b \in Buckets : sweep.cycles_by_type[b] # <<>>}) = 1
        /\ sweep.embed[1].total_cycles
              = Len(sweep.cycles_by_type[sweep.embed[1].notification_type])

----------------------------------------------------------------------------
(* Admin and test sends against the sweep, checked under SpecSends *)

(* C34: log entries tagged ADMIN_ or TEST_ never suppress an automated
   sweep: a cycle the classifier gave a bucket is left out of that bucket's
   list only when a successful BATCHED_ entry of that bucket and date
   exists for it, whatever admin and test entries exist. *)
C34_ManualEntriesDoNotSuppress ==
    SweepRan =>
        \A e \in sweep.classified :
            e.type \in Buckets =>
                (e.cycle \notin BucketSet(sweep.cycles_by_type, e.type)
                    <=> \E l \in sweep.logs_before :
                            /\ l.tax_cycle = e.cycle
                            /\ l.notification_type = BatchedTag[e.type]
                            /\ l.sent_date = sweep.day[1]
                            /\ l.success)

(* C34 witness: the sweep selected a cycle that already had a successful
   ADMIN_ entry and a successful TEST_ entry of the same date *)
C34_Witness ==
    /\ SweepRan
    /\ \E e \in sweep.classified :
          /\ e.type \in Buckets
          /\ e.cycle \in BucketSet(sweep.cycles_by_type, e.type)
          /\ \E l \in sweep.logs_before :
                /\ l.tax_cycle = e.cycle /\ l.success /\ l.sent_date = sweep.day[1]
                /\ l.notification_type = AdminTag[e.type]
          /\ \E l \in sweep.logs_before :
                /\ l.tax_cycle = e.cycle /\ l.success /\ l.sent_date = sweep.day[1]
                /\ l.notification_type \in {TestTag[b] : b \in Buckets}

----------------------------------------------------------------------------
(* The advance notice over the days, checked under SpecNotify *)

(* The messages that carry cycle c in their ADVANCE list *)
AdvanceMessages(c) ==
    {i \in 1..Len(outbox) : c.id \in BucketSet(outbox[i].cycles_by_type, "ADVANCE")}

(* The one date on which c is due in advance_notice_days days has passed *)
NoticeDatePassed(c) ==
    DaysBetween(c.due_date, today) < config[1].advance_notice_days

(* C37: a cycle is eligible for ADVANCE on exactly one date, the date with
   due_date - today = advance_notice_days: every message that carries the
   cycle in its ADVANCE list was posted on that date, so when no sweep of
   that date was delivered, no automated ADVANCE is sent for the cycle on a
   later date. *)
C37_AdvanceOnlyOnNoticeDate ==
    config # Null =>
        \A c \in cycles :
            /\ \A i \in AdvanceMessages(c) :
                  DaysBetween(c.due_date, outbox[i].day) = config[1].advance_notice_days
            /\ (/\ NoticeDatePassed(c)
                /\ SweepRan
                /\ DaysBetween(c.due_date, sweep.day[1]) < config[1].advance_notice_days)
                  => c.id \notin BucketSet(sweep.cycles_by_type, "ADVANCE")

(* C37 witness: the only ADVANCE message of an open cycle was posted on its
   notice date and refused, and a sweep of a later date ran with advance
   notices enabled and sent no ADVANCE for it *)
C37_Witness ==
    /\ SweepRan
    /\ config[1].send_advance_notice
    /\ \E c \in cycles :
          /\ IsOpen(c)
          /\ NoticeDatePassed(c)
          /\ AdvanceMessages(c) # {}
          /\ \A i \in AdvanceMessages(c) : ~outbox[i].accepted
          /\ DaysBetween(c.due_date, sweep.day[1]) < config[1].advance_notice_days
          /\ c \in sweep.table

----------------------------------------------------------------------------
(* The generator against closed cycles, checked under SpecCompletion *)

(* The obligations the latest run created *)
RunCreatedObligations == obligations \ run.obligations_before

(* C35: a generation run adds a PENDING obligation for every active
   assignment an existing cycle lacks, whatever the status of the cycle,
   PAID and WRITTEN_OFF included; a cycle whose completion_status was
   "complete" before the run can therefore be "outstanding" after it. *)
C35_RunSynchronizesClosedCycles ==
    run.n >= 1 =>
        /\ \A c \in run.before :
              (/\ ownerships[c.system_ownership].tax_active
               /\ DateLE(c.period_start, current_month_start)) =>
                  \A t \in ActiveTypes(assignments, c.system_ownership) :
                      \E o \in obligations : o.tax_cycle = c.id /\ o.obligation_type = t
        /\ \A o \in RunCreatedObligations :
              /\ o.status = OBLIGATION_STATUS_PENDING
              /\ o.fulfilled_date = Null /\ o.fulfilled_by = Null
        /\ \A c \in run.before :
              (/\ completion_status(c, run.obligations_before) = "complete"
               /\ completion_status(c, obligations) = "outstanding")
                  => \E o \in RunCreatedObligations : o.tax_cycle = c.id

(* C35 witness: a PAID cycle that was "complete" before the run got a
   PENDING obligation from the run and is "outstanding" after it *)
C35_Witness ==
    /\ run.n >= 1
    /\ \E c \in run.before :
          /\ c \in cycles
          /\ c.status = TAXCYCLE_STATUS_PAID
          /\ completion_status(c, run.obligations_before) = "complete"
          /\ completion_status(c, obligations) = "outstanding"
          /\ \E o \in RunCreatedObligations :
                o.tax_cycle = c.id /\ o.status = OBLIGATION_STATUS_PENDING

(* A WRITTEN_OFF cycle got a PENDING obligation from the run *)
C35_WrittenOffWitness ==
    /\ run.n >= 1
    /\ \E c \in run.before :
          /\ c.status = TAXCYCLE_STATUS_WRITTEN_OFF
          /\ \E o \in RunCreatedObligations : o.tax_cycle = c.id

----------------------------------------------------------------------------
(* Months a run left out and a later run fills, checked under Spec *)

(* C36: a month after an ownership's earliest cycle that a run left without
   a cycle (amount <= 0, or the ownership not tax-active at that run) is
   created by a later run once the ownership is tax-active with a positive
   amount, and the cycle created then carries the default amount of the
   later run. *)
C36_LeftOutMonthCreatedLater ==
    run.n >= 1 =>
        \A p \in left_out :
            (/\ ownerships[p[1]].tax_active
             /\ ownerships[p[1]].default_tax_amount_isk > 0
             /\ DateLE(p[2], current_month_start)) =>
                \E c \in cycles :
                    /\ c.system_ownership = p[1] /\ c.period_start = p[2]
                    /\ c.id \in run.created_ids =>
                          /\ c.target_amount = ownerships[p[1]].default_tax_amount_isk
                          /\ c.status = TAXCYCLE_STATUS_PENDING

(* C36 witness: the latest run created, with today's default of 2, the cycle
   of a past month that an earlier run had left out *)
C36_Witness ==
    /\ run.n >= 1
    /\ \E p \in left_out, c \in cycles :
          /\ c.system_ownership = p[1] /\ c.period_start = p[2]
          /\ c.id \in run.created_ids
          /\ DateLT(p[2], current_month_start)
          /\ c.target_amount = 2
          /\ ownerships[p[1]].default_tax_amount_isk = 2
          /\ \E e \in run.before :
                e.system_ownership = p[1] /\ DateLT(e.period_start, p[2])

============================================================================
